---- MODULE Spec2Model ----
(***************************************************************************)
(* A model of the articy:draft -> Ren'Py code generator (converter.py and  *)
(* utils.py).                                                              *)
(*                                                                         *)
(* Conventions.                                                            *)
(*  - A Python str is a sequence of one-character strings; a piece of text *)
(*    whose inner structure no code path inspects (a prefix, an id in its  *)
(*    printed form) may be a single longer token.  '' is << >>.            *)
(*  - A Python dict with optional keys is a record with every field        *)
(*    present, plus a field Keys: the set of the optional keys that the    *)
(*    dict really holds ('X' in d  is  "X" \in d.Keys).                    *)
(*  - A function that may raise returns a record with a field err: the     *)
(*    name of the exception raised, or "" when it returns normally.        *)
(*  - A line of generated Ren'Py code is the str the code builds, token by  *)
(*    token as the f-string does: INDENT tokens, a keyword token, the       *)
(*    interpolated text, a closing token.                                   *)
(***************************************************************************)
EXTENDS Integers, Sequences, FiniteSets, TLC

VARIABLES
    data,                             \* the export file at path_articy_json
    models,                           \* self.models (read from the export)
    hierarchy_flow,                   \* self.hierarchy_flow: ids of the uppermost elements
    global_variables,                 \* self.global_variables: namespace names
    base_dir,                         \* content of path_base_dir before the run
    input_pins,                       \* self.input_pins
    output_pins,                      \* self.output_pins
    hierarchy_path_map,               \* self.hierarchy_path_map (insertion ordered)
    entity_id_to_character_name_map,  \* self.entity_id_to_character_name_map (insertion ordered)
    renpy_definitions,                \* self.renpy_definitions
    log_data,                         \* self.log_data (insertion ordered)
    files,                            \* the generated files: path -> lines
    pc,                               \* where run() stands
    cursor,                           \* loop positions of run()
    error,                            \* the exception that ended the run, "" if none
    issued,                           \* history: identifiers handed to add_new_definition that were added
    last                              \* history: what the last handler call was given and returned

vars == << data, models, hierarchy_flow, global_variables, base_dir, input_pins, output_pins,
           hierarchy_path_map, entity_id_to_character_name_map, renpy_definitions,
           log_data, files, pc, cursor, error, issued, last >>

-----------------------------------------------------------------------------
(* Python str and list primitives                                          *)

Str(tok) == << tok >>

StartsWith(s, p) == Len(s) >= Len(p) /\ SubSeq(s, 1, Len(p)) = p

\* str.replace(old, new): leftmost, non-overlapping occurrences
RECURSIVE Replace(_, _, _)
Replace(s, old, new) ==
    IF Len(s) < Len(old) \/ Len(old) = 0 THEN s
    ELSE IF StartsWith(s, old)
         THEN new \o Replace(SubSeq(s, Len(old) + 1, Len(s)), old, new)
         ELSE << s[1] >> \o Replace(Tail(s), old, new)

\* str.find(sub): 1-based position of the first occurrence, 0 when there is none
RECURSIVE FindFrom(_, _, _)
FindFrom(s, sub, i) ==
    IF i + Len(sub) - 1 > Len(s) THEN 0
    ELSE IF SubSeq(s, i, i + Len(sub) - 1) = sub THEN i
    ELSE FindFrom(s, sub, i + 1)

Whitespace == { " ", "\n", "\r", "\t" }

RECURSIVE LStrip(_)
LStrip(s) == IF s # << >> /\ s[1] \in Whitespace THEN LStrip(Tail(s)) ELSE s

RECURSIVE RStrip(_)
RStrip(s) ==
    IF s # << >> /\ s[Len(s)] \in Whitespace THEN RStrip(SubSeq(s, 1, Len(s) - 1)) ELSE s

\* str.strip()
Strip(s) == RStrip(LStrip(s))

\* str.split(sep) for a one-character sep: the list of segments, empty ones included
RECURSIVE SplitAcc(_, _, _)
SplitAcc(s, sep, cur) ==
    IF s = << >> THEN << cur >>
    ELSE IF s[1] = sep THEN << cur >> \o SplitAcc(Tail(s), sep, << >>)
    ELSE SplitAcc(Tail(s), sep, Append(cur, s[1]))

Split(s, sep) == SplitAcc(s, sep, << >>)

\* str.split(sep) for a longer sep
RECURSIVE SplitOnAcc(_, _, _)
SplitOnAcc(s, sep, cur) ==
    IF s = << >> THEN << cur >>
    ELSE IF StartsWith(s, sep)
         THEN << cur >> \o SplitOnAcc(SubSeq(s, Len(sep) + 1, Len(s)), sep, << >>)
         ELSE SplitOnAcc(Tail(s), sep, Append(cur, s[1]))

SplitOn(s, sep) == SplitOnAcc(s, sep, << >>)

\* str.lower() on the letters the model uses
LowerChar(c) ==
    CASE c = "A" -> "a"
      [] c = "B" -> "b"
      [] c = "C" -> "c"
      [] c = "D" -> "d"
      [] c = "O" -> "o"
      [] c = "T" -> "t"
      [] OTHER -> c

Lower(s) == [i \in 1..Len(s) |-> LowerChar(s[i])]

\* str(n) for the numbers the model prints
IntStr(n) == << ToString(n) >>

\* the elements of a sequence
Range(s) == { s[i] : i \in 1..Len(s) }

\* concatenation of a sequence of sequences
RECURSIVE Flatten(_)
Flatten(ss) == IF ss = << >> THEN << >> ELSE Head(ss) \o Flatten(Tail(ss))

-----------------------------------------------------------------------------
(* utils.py: the Expression Translator                                     *)

\* a search that takes every "!" for a negation, whatever follows it
FirstNegationAnywhere(s) ==
    LET hits == { i \in 1..Len(s) : s[i] = "!" }
    IN IF hits = {} THEN 0 ELSE CHOOSE i \in hits : \A j \in hits : i <= j

\* the loop of convert_condition_from_articy_to_python: re.search("![^=]") finds the
\* first "!" that is followed by a character other than "=", and that "!" becomes "not "
FirstNegation(s) ==
    LET hits == { i \in 1..(Len(s) - 1) : s[i] = "!" /\ s[i + 1] # "=" }
    IN IF hits = {} THEN 0 ELSE CHOOSE i \in hits : \A j \in hits : i <= j

\* a rewrite of negations that does not look at the character behind the "!"
RewriteNegationsBlindly(s) == Replace(s, << "!" >>, << "n", "o", "t", " " >>)

RECURSIVE RewriteNegations(_)
RewriteNegations(s) ==
    LET i == FirstNegation(s)
    IN IF i = 0 THEN s
       ELSE RewriteNegations(SubSeq(s, 1, i - 1) \o << "n", "o", "t", " " >>
                                \o SubSeq(s, i + 1, Len(s)))

convert_condition_from_articy_to_python(text) ==
    Strip(RewriteNegations(
        Replace(Replace(Replace(Replace(text,
                                        << "t", "r", "u", "e" >>, << "T", "r", "u", "e" >>),
                                << "f", "a", "l", "s", "e" >>, << "F", "a", "l", "s", "e" >>),
                        << "&", "&" >>, << "a", "n", "d" >>),
                << "|", "|" >>, << "o", "r" >>)))

-----------------------------------------------------------------------------
(* The export: models, pins, connections                                   *)

\* a connection of an output pin
Connection(target, target_pin, label) ==
    [Target |-> target, TargetPin |-> target_pin, Label |-> label]

\* a pin; Keys holds "Connections" when the pin dict has that key
Pin(id, owner, text, keys, connections) ==
    [Id |-> id, Owner |-> owner, Text |-> text, Keys |-> keys, Connections |-> connections]

\* one comma separated entry of Properties.StageDirections:
\*   kind "int"   a number (the choice index)                     n
\*   kind "str"   name="s"  (label, speaker, before, after)       name, s
\*   kind "flag"  name=True / name=False                          name, s
\*   kind "other" anything else
Directive(kind, name, n, s) == [kind |-> kind, name |-> name, n |-> n, s |-> s]
DirInt(n) == Directive("int", "", n, << >>)
DirStr(name, s) == Directive("str", name, 0, s)
DirFlag(name, s) == Directive("flag", name, 0, s)
DirOther == Directive("other", "", 0, << >>)

\* a model of Packages[0].Models; Keys holds the optional keys of Properties
\* that the export wrote for this model (and "Template" for the model itself)
Model(type, id, parent, keys, display_name, text, menu_text, directions, expression, target, speaker, in_pins, out_pins, character_name) ==
    [Type |-> type, Id |-> id, Parent |-> parent, Keys |-> keys,
     DisplayName |-> display_name, Text |-> text, MenuText |-> menu_text,
     StageDirections |-> directions, Expression |-> expression, Target |-> target, Speaker |-> speaker,
     InputPins |-> in_pins, OutputPins |-> out_pins, CharacterName |-> character_name]

\* Python's None where a model id, a pin or a model is expected
None == 0
NoPin == Pin(None, None, << >>, {}, << >>)
NoModel ==
    Model("", None, None, {}, << >>, << >>, << >>, << >>, << >>, None, None, << >>, << >>, << >>)

-----------------------------------------------------------------------------
(* Configuration (the defaults of Converter.__init__)                      *)

INDENT == << "    " >>
file_prefix == << "articy_" >>
label_prefix == << "label_" >>
start_label == << "start" >>
end_label == << "end" >>
character_prefix == << "character." >>
menu_display_text_box == TRUE
renpy_box_types == { "RenPyBox" }
index_default_value == 1904

\* INDENT * n
RECURSIVE Indent(_)
Indent(n) == IF n <= 0 THEN << >> ELSE INDENT \o Indent(n - 1)

\* the printed form of a model id (ids are numbers in the export's hex notation)
IdStr(id) == << "0x" >> \o IntStr(id)

-----------------------------------------------------------------------------
(* utils.py: lookups                                                       *)

get_model_with_id(model_id, ms) ==
    LET hits == { i \in 1..Len(ms) : ms[i].Id = model_id }
    IN IF hits = {} THEN NoModel ELSE ms[CHOOSE i \in hits : \A j \in hits : i <= j]

get_input_pins_of_model(model) ==
    IF "InputPins" \notin model.Keys THEN << >> ELSE model.InputPins

get_output_pins_of_model(model) ==
    IF "OutputPins" \notin model.Keys THEN << >> ELSE model.OutputPins

get_models_with_parent(parent_id, ms) ==
    SelectSeq(ms, LAMBDA m : m.Parent = parent_id)

\* position of the first pin with the id in a pin list, 0 if none
PinIndex(pins, pin_id) ==
    LET hits == { i \in 1..Len(pins) : pins[i].Id = pin_id }
    IN IF hits = {} THEN 0 ELSE CHOOSE i \in hits : \A j \in hits : i <= j

\* the loop "for model in models: for pin in model['Properties'][key]": the scan
\* ends at the first model that holds the pin, and model['Properties'][key] raises
\* KeyError at a model without the key that is reached before
RECURSIVE ScanPins(_, _, _)
ScanPins(pin_id, ms, key) ==
    IF ms = << >> THEN [err |-> "", pin |-> NoPin]
    ELSE IF key \notin Head(ms).Keys THEN [err |-> "KeyError", pin |-> NoPin]
    ELSE LET pins == IF key = "InputPins" THEN Head(ms).InputPins ELSE Head(ms).OutputPins
             i == PinIndex(pins, pin_id)
         IN IF i # 0 THEN [err |-> "", pin |-> pins[i]]
            ELSE ScanPins(pin_id, Tail(ms), key)

\* get_input_pin_with_id(input_pin_id, models): no model given
get_input_pin_with_id(input_pin_id, ms) == ScanPins(input_pin_id, ms, "InputPins")

\* get_input_pin_with_id(input_pin_id, models, model=model)
get_input_pin_with_id_in(input_pin_id, model) ==
    IF model = NoModel THEN get_input_pin_with_id(input_pin_id, << >>)
    ELSE IF "InputPins" \notin model.Keys THEN [err |-> "KeyError", pin |-> NoPin]
    ELSE LET i == PinIndex(model.InputPins, input_pin_id)
         IN [err |-> "", pin |-> IF i = 0 THEN NoPin ELSE model.InputPins[i]]

\* get_output_pin_with_id(output_pin_id, models): no model given
get_output_pin_with_id(output_pin_id, ms) == ScanPins(output_pin_id, ms, "OutputPins")

\* sys.getrecursionlimit(): the model only needs a depth that no acyclic chain of
\* the graphs it draws can reach
RecursionLimit == 8

\* a resolution that takes a pin id that is neither an input pin nor an output pin for
\* the end of the flow
RECURSIVE ResolveTargetLenient(_, _, _, _, _)
ResolveTargetLenient(output_pin, ms, ips, ops, depth) ==
    IF depth > RecursionLimit THEN [err |-> "RecursionError", target |-> None]
    ELSE IF "Connections" \notin output_pin.Keys THEN [err |-> "", target |-> None]
    ELSE IF output_pin.Connections = << >> THEN [err |-> "IndexError", target |-> None]
    ELSE LET target_pin_id == output_pin.Connections[1].TargetPin
         IN IF target_pin_id \in ips
            THEN LET next_pin == get_input_pin_with_id(target_pin_id, ms)
                 IN IF next_pin.err # "" THEN [err |-> next_pin.err, target |-> None]
                    ELSE IF next_pin.pin = NoPin THEN [err |-> "TypeError", target |-> None]
                    ELSE [err |-> "", target |-> next_pin.pin.Owner]
            ELSE IF target_pin_id \in ops
            THEN LET next_pin == get_output_pin_with_id(target_pin_id, ms)
                 IN IF next_pin.err # "" THEN [err |-> next_pin.err, target |-> None]
                    ELSE IF next_pin.pin = NoPin THEN [err |-> "AttributeError", target |-> None]
                    ELSE ResolveTargetLenient(next_pin.pin, ms, ips, ops, depth + 1)
            ELSE [err |-> "", target |-> None]

\* a resolution that gives up in silence where the interpreter raises RecursionError
RECURSIVE ResolveTargetGivingUp(_, _, _, _, _)
ResolveTargetGivingUp(output_pin, ms, ips, ops, depth) ==
    IF depth > RecursionLimit THEN [err |-> "", target |-> None]
    ELSE IF "Connections" \notin output_pin.Keys THEN [err |-> "", target |-> None]
    ELSE IF output_pin.Connections = << >> THEN [err |-> "IndexError", target |-> None]
    ELSE LET target_pin_id == output_pin.Connections[1].TargetPin
         IN IF target_pin_id \in ips
            THEN LET next_pin == get_input_pin_with_id(target_pin_id, ms)
                 IN IF next_pin.err # "" THEN [err |-> next_pin.err, target |-> None]
                    ELSE IF next_pin.pin = NoPin THEN [err |-> "TypeError", target |-> None]
                    ELSE [err |-> "", target |-> next_pin.pin.Owner]
            ELSE IF target_pin_id \in ops
            THEN LET next_pin == get_output_pin_with_id(target_pin_id, ms)
                 IN IF next_pin.err # "" THEN [err |-> next_pin.err, target |-> None]
                    ELSE IF next_pin.pin = NoPin THEN [err |-> "AttributeError", target |-> None]
                    ELSE ResolveTargetGivingUp(next_pin.pin, ms, ips, ops, depth + 1)
            ELSE [err |-> "ValueError", target |-> None]

RECURSIVE ResolveTarget(_, _, _, _, _)
ResolveTarget(output_pin, ms, ips, ops, depth) ==
    IF depth > RecursionLimit THEN [err |-> "RecursionError", target |-> None]
    ELSE IF "Connections" \notin output_pin.Keys THEN [err |-> "", target |-> None]
    ELSE IF output_pin.Connections = << >> THEN [err |-> "IndexError", target |-> None]
    ELSE LET target_pin_id == output_pin.Connections[1].TargetPin
         IN IF target_pin_id \in ips
            THEN LET next_pin == get_input_pin_with_id(target_pin_id, ms)
                 IN IF next_pin.err # "" THEN [err |-> next_pin.err, target |-> None]
                    ELSE IF next_pin.pin = NoPin THEN [err |-> "TypeError", target |-> None]
                    ELSE [err |-> "", target |-> next_pin.pin.Owner]
            ELSE IF target_pin_id \in ops
            THEN LET next_pin == get_output_pin_with_id(target_pin_id, ms)
                 IN IF next_pin.err # "" THEN [err |-> next_pin.err, target |-> None]
                    ELSE IF next_pin.pin = NoPin THEN [err |-> "AttributeError", target |-> None]
                    ELSE ResolveTarget(next_pin.pin, ms, ips, ops, depth + 1)
            ELSE [err |-> "ValueError", target |-> None]

get_target_of_pin_recursively(output_pin, ms, ips, ops) == ResolveTarget(output_pin, ms, ips, ops, 1)

-----------------------------------------------------------------------------
(* utils.py: stage directions, labels, choices, character names            *)

\* string_to_list(stage_directions, ","): the entries of the field
string_to_list(directions) == directions

\* position of the first entry that satisfies Test, 0 if none
FirstDirective(directions, Test(_)) ==
    LET hits == { i \in 1..Len(directions) : Test(directions[i]) }
    IN IF hits = {} THEN 0 ELSE CHOOSE i \in hits : \A j \in hits : i <= j

\* get_substr_between(stage_directions, name + '="', '"'): [found, value]
get_substr_between(directions, name) ==
    LET i == FirstDirective(directions, LAMBDA d : d.kind = "str" /\ d.name = name)
    IN IF i = 0 THEN [found |-> FALSE, value |-> << >>]
       ELSE [found |-> TRUE, value |-> directions[i].s]

\* has_stage_direction(model, name + "=" + value)
has_stage_direction(model, name, value) ==
    IF "StageDirections" \notin model.Keys THEN FALSE
    ELSE \E i \in 1..Len(model.StageDirections) :
            LET d == string_to_list(model.StageDirections)[i]
            IN d.kind = "flag" /\ d.name = name /\ d.s = value

get_choice_index(model) ==
    IF "StageDirections" \notin model.Keys THEN index_default_value + model.Id
    ELSE IF model.StageDirections = << >> THEN index_default_value
    ELSE LET stage_directions == string_to_list(model.StageDirections)
             i == FirstDirective(stage_directions, LAMBDA d : d.kind = "int")
         IN IF i # 0 THEN stage_directions[i].n
            ELSE index_default_value + model.Id

get_connection_index(connection, ms) ==
    get_choice_index(get_model_with_id(connection.Target, ms))

\* a get_label that does not look at the stage directions
get_label_by_id(model) == label_prefix \o IdStr(model.Id)

get_label(model) ==
    LET stage_directions_label == get_substr_between(model.StageDirections, "label")
    IN IF "StageDirections" \in model.Keys /\ stage_directions_label.found
       THEN stage_directions_label.value
       ELSE label_prefix \o IdStr(model.Id)

\* a get_choice_text that prefers the label of the connection to the menu text
get_choice_text_label_first(model, connection) ==
    IF connection.Label # << >> THEN connection.Label
    ELSE IF "MenuText" \in model.Keys /\ model.MenuText # << >> THEN model.MenuText
    ELSE model.Text

get_choice_text(model, connection) ==
    IF "MenuText" \in model.Keys /\ model.MenuText # << >> THEN model.MenuText
    ELSE IF connection.Label # << >> THEN connection.Label
    ELSE model.Text

\* the values of a dict held as a sequence of [key, value] entries
Values(map) == { map[i].value : i \in 1..Len(map) }
Keys(map) == { map[i].key : i \in 1..Len(map) }

\* d[key] for a key the dict holds
Get(map, key) == map[CHOOSE i \in 1..Len(map) : map[i].key = key].value

\* d[key] = value: a new key goes to the end, an old key keeps its place
Put(map, key, value) ==
    IF key \in Keys(map)
    THEN [i \in 1..Len(map) |-> IF map[i].key = key THEN [key |-> key, value |-> value] ELSE map[i]]
    ELSE Append(map, [key |-> key, value |-> value])

\* a get_free_character_name that hands back the name it was given
get_free_character_name_taken(character_name, map) == character_name

RECURSIVE FreeNameFrom(_, _, _)
FreeNameFrom(character_name, map, count) ==
    IF (character_name \o << "_" >> \o IntStr(count)) \notin Values(map)
    THEN character_name \o << "_" >> \o IntStr(count)
    ELSE FreeNameFrom(character_name, map, count + 1)

get_free_character_name(character_name, map) ==
    IF character_name \notin Values(map) THEN character_name
    ELSE FreeNameFrom(character_name, map, 1)

get_speaker_name(model, map) ==
    LET by_entity == IF model.Speaker \in Keys(map) THEN Get(map, model.Speaker) ELSE << >>
        by_direction == get_substr_between(model.StageDirections, "speaker")
    IN IF by_direction.found /\ by_direction.value # << >>
       THEN << "\"" >> \o by_direction.value \o << "\"" >>
       ELSE by_entity

add_escape_characters(text) ==
    Replace(Replace(Replace(text, << "\"" >>, << "\\", "\"" >>),
                    << "'" >>, << "\\", "'" >>),
            << "%" >>, << "\\", "%" >>)

\* preprocess_text with markdown_text_styles False (the configured default)
preprocess_text(text) == add_escape_characters(text)

\* number of connections on a list of pins
RECURSIVE get_connections_num(_)
get_connections_num(pins) ==
    IF pins = << >> THEN 0
    ELSE (IF "Connections" \in Head(pins).Keys THEN Len(Head(pins).Connections) ELSE 0)
         + get_connections_num(Tail(pins))

\* the entries of the stage directions that the node's role does not accept
get_invalid_stage_directions(model, string_arguments, bool_arguments) ==
    IF "StageDirections" \notin model.Keys THEN << >>
    ELSE SelectSeq(model.StageDirections,
                   LAMBDA d : \/ d.kind = "other"
                              \/ d.kind = "str" /\ d.name \notin string_arguments
                              \/ d.kind = "flag" /\ d.name \notin bool_arguments)

-----------------------------------------------------------------------------
(* converter.py: the Converter object                                      *)

\* the ObjectDefinitions of the export: the templates of the project
object_definitions ==
    << [Type |-> "RenPyBox", Class |-> "DialogueFragment"],
       [Type |-> "Narration", Class |-> "DialogueFragment"],
       [Type |-> "Character", Class |-> "Entity"] >>

\* self.node_type_inheritance[class] as read_data builds it
node_type_inheritance(class) ==
    { class } \cup { object_definitions[i].Type : i \in
                       { j \in 1..Len(object_definitions) :
                           /\ object_definitions[j].Class = class
                           /\ object_definitions[j].Type \notin renpy_box_types } }

\* self.entity_types as read_data builds it
entity_types ==
    { object_definitions[i].Type : i \in
        { j \in 1..Len(object_definitions) : object_definitions[j].Class = "Entity" } }

\* the fields of self that the line builders read and write
Self == [models |-> models, input_pins |-> input_pins, output_pins |-> output_pins,
         hierarchy_path_map |-> hierarchy_path_map,
         entity_id_to_character_name_map |-> entity_id_to_character_name_map,
         renpy_definitions |-> renpy_definitions, log_data |-> log_data,
         issued |-> issued]

\* what a line builder returns: the exception (or ""), the lines, and self afterwards
Result(err, lines, self) == [err |-> err, lines |-> lines, self |-> self]

\* sequencing of statements: the statements Rest after a call run only if the call
\* returned; if it raised, the exception leaves the function
Then(r, Rest(_)) == IF r.err # "" THEN r ELSE Rest(r)

\* the same for a call that leaves self alone, in a function that returns lines
Try(r, Rest(_)) == IF r.err # "" THEN [err |-> r.err, lines |-> << >>] ELSE Rest(r)

\* the same for a call that leaves self alone, in a method that has brought self so far
TryWith(r, self, Rest(_)) == IF r.err # "" THEN Result(r.err, << >>, self) ELSE Rest(r)

\* a log that drops the message
log_dropping(self, path, msg) == self

\* Converter.log
log(self, path, msg) ==
    [self EXCEPT !.log_data =
        IF path \in Keys(@) THEN Put(@, path, Append(Get(@, path), msg))
        ELSE Put(@, path, << msg >>)]

\* an add_new_definition that issues an identifier again instead of raising
add_new_definition_reissuing(self, new_definition) ==
    Result("", << >>, [self EXCEPT !.renpy_definitions = @ \cup { new_definition },
                                   !.issued = Append(@, new_definition)])

\* Converter.add_new_definition; issued records the identifiers in the order in which
\* they were added
add_new_definition(self, new_definition) ==
    IF new_definition \in self.renpy_definitions
    THEN Result("ValueError", << >>, self)
    ELSE Result("", << >>, [self EXCEPT !.renpy_definitions = @ \cup { new_definition },
                                        !.issued = Append(@, new_definition)])

\* a lines_of_label that goes on after the exception of add_new_definition
lines_of_label_unaborted(self, model) ==
    Result("", << << "label " >> \o get_label(model) \o << ":\n" >> >>,
           add_new_definition(self, get_label(model)).self)

\* Converter.lines_of_label
lines_of_label(self, model) ==
    Then(add_new_definition(self, get_label(model)),
         LAMBDA defined :
             Result("", << << "label " >> \o get_label(model) \o << ":\n" >> >>, defined.self))

\* the loop of lines_of_expression: one line for each instruction
InstructionLines(instructions, indent_lvl) ==
    [i \in 1..Len(instructions) |->
        Indent(indent_lvl) \o << "$ " >> \o instructions[i] \o << "\n" >>]

\* Converter.lines_of_expression
lines_of_expression(expression, indent_lvl) ==
    InstructionLines(
        SelectSeq(Split(Replace(Replace(convert_condition_from_articy_to_python(expression),
                                        << "\n" >>, << >>),
                                << "\r" >>, << >>),
                        ";"),
                  LAMBDA instruction : instruction # << >>),
        indent_lvl)

\* a connection put into a sorted list behind the connections whose key is not larger
InsertConnection(front, x, ms) ==
    SubSeq(front, 1,
           Cardinality({ i \in 1..Len(front) :
                           get_connection_index(front[i], ms) <= get_connection_index(x, ms) }))
    \o << x >>
    \o SubSeq(front,
              Cardinality({ i \in 1..Len(front) :
                              get_connection_index(front[i], ms) <= get_connection_index(x, ms) })
                  + 1,
              Len(front))

\* a sort that leaves the connections as the pin lists them
SortedConnectionsAsListed(connections, ms) == connections

\* sorted(connections, key=get_connection_index): a stable sort
RECURSIVE SortedConnections(_, _)
SortedConnections(connections, ms) ==
    IF connections = << >> THEN << >>
    ELSE InsertConnection(SortedConnections(SubSeq(connections, 1, Len(connections) - 1), ms),
                          connections[Len(connections)], ms)

\* an option header that never carries a condition
MenuOptionHeaderUnguarded(choice_text, choice_condition, indent_level) ==
    Indent(indent_level + 1) \o << "\"" >> \o choice_text \o << "\":\n" >>

\* the line that opens an option of a menu
MenuOptionHeader(choice_text, choice_condition, indent_level) ==
    IF choice_condition # << >>
    THEN Indent(indent_level + 1) \o << "\"" >> \o choice_text
             \o << "\" if " >> \o choice_condition \o << ":\n" >>
    ELSE Indent(indent_level + 1) \o << "\"" >> \o choice_text \o << "\":\n" >>

\* an option that jumps before the instructions of its pin
MenuOptionJumpFirst(connection, choice_model, pin, indent_level, rest) ==
    IF get_choice_text(choice_model, connection) = << >>
    THEN [err |-> "InvalidArticy", lines |-> << >>]
    ELSE Try(rest,
             LAMBDA options :
                 [err |-> "",
                  lines |->
                      << MenuOptionHeader(
                             preprocess_text(get_choice_text(choice_model, connection)),
                             convert_condition_from_articy_to_python(
                                 get_input_pin_with_id_in(connection.TargetPin,
                                                          choice_model).pin.Text),
                             indent_level) >>
                      \o << Indent(indent_level + 2) \o << "jump " >>
                                \o get_label(choice_model) \o << "\n" >> >>
                      \o lines_of_expression(pin.Text, indent_level + 2)
                      \o options.lines])

\* one turn of "for connection in connections" of lines_of_menu, and the turns after it
MenuOption(connection, choice_model, pin, indent_level, rest) ==
    IF get_choice_text(choice_model, connection) = << >>
    THEN [err |-> "InvalidArticy", lines |-> << >>]
    ELSE Try(get_input_pin_with_id_in(connection.TargetPin, choice_model),
             LAMBDA choice_input_pin :
                 IF choice_input_pin.pin = NoPin THEN [err |-> "TypeError", lines |-> << >>]
                 ELSE Try(rest,
                          LAMBDA options :
                              [err |-> "",
                               lines |->
                                   << MenuOptionHeader(
                                          preprocess_text(get_choice_text(choice_model, connection)),
                                          convert_condition_from_articy_to_python(
                                              Replace(Replace(choice_input_pin.pin.Text,
                                                              << "\r" >>, << " " >>),
                                                      << "\n" >>, << " " >>)),
                                          indent_level) >>
                                   \o lines_of_expression(pin.Text, indent_level + 2)
                                   \o << Indent(indent_level + 2) \o << "jump " >>
                                             \o get_label(choice_model) \o << "\n" >> >>
                                   \o options.lines]))

\* the loop "for connection in connections" of lines_of_menu
RECURSIVE MenuOptions(_, _, _, _)
MenuOptions(connections, pin, indent_level, ms) ==
    IF connections = << >> THEN [err |-> "", lines |-> << >>]
    ELSE MenuOption(Head(connections), get_model_with_id(Head(connections).Target, ms), pin,
                    indent_level, MenuOptions(Tail(connections), pin, indent_level, ms))

\* the loop "for pin in pins" of lines_of_menu
RECURSIVE MenuPins(_, _, _)
MenuPins(pins, indent_level, ms) ==
    IF pins = << >> THEN [err |-> "", lines |-> << >>]
    ELSE IF "Connections" \notin Head(pins).Keys THEN [err |-> "KeyError", lines |-> << >>]
    ELSE IF \E i \in 1..Len(Head(pins).Connections) :
                get_model_with_id(Head(pins).Connections[i].Target, ms) = NoModel
    THEN [err |-> "TypeError", lines |-> << >>]
    ELSE Try(MenuOptions(SortedConnections(Head(pins).Connections, ms), Head(pins),
                         indent_level, ms),
             LAMBDA options :
                 Try(MenuPins(Tail(pins), indent_level, ms),
                     LAMBDA rest : [err |-> "", lines |-> options.lines \o rest.lines]))

\* Converter.lines_of_menu
lines_of_menu(pins, display_text_box, indent_level, ms) ==
    Try(MenuPins(pins, indent_level, ms),
        LAMBDA body :
            [err |-> "",
             lines |-> << Indent(indent_level) \o << "menu:\n" >> >>
                       \o (IF display_text_box
                           THEN << Indent(indent_level + 1) \o << "extend \"\"\n\n" >> >>
                           ELSE << >>)
                       \o body.lines])

\* the message of an unassigned jump target
NoTargetMessage(model) ==
    get_label(model) \o << " was not assigned any jump target in Articy, will jump to \"" >>
        \o end_label \o << "\"" >>

\* the end of lines_of_single_jump: the jump to the label of the target, or to the end
\* label, with a diagnostic, when there is none
SingleJump(self, lines, target_model_id, model, path_file, indent_level) ==
    IF model = NoModel THEN Result("TypeError", << >>, self)
    ELSE IF target_model_id = None
    THEN Result("", Append(lines, Indent(indent_level) \o << "jump " >> \o end_label \o << "\n" >>),
                log(self, path_file, NoTargetMessage(model)))
    ELSE Result("", Append(lines, Indent(indent_level) \o << "jump " >> \o get_label(model)
                                      \o << "\n" >>),
                self)

\* Converter.lines_of_single_jump
lines_of_single_jump(self, output_pin, model_id, path_file, indent_level) ==
    TryWith(get_target_of_pin_recursively(output_pin, self.models, self.input_pins,
                                          self.output_pins),
            self,
            LAMBDA resolved :
                SingleJump(self, lines_of_expression(output_pin.Text, 1), resolved.target,
                           get_model_with_id(IF resolved.target = None THEN model_id
                                             ELSE resolved.target,
                                             self.models),
                           path_file, indent_level))

\* the pin that lines_of_jump_logic_with_pins hands to lines_of_single_jump: the last
\* pin of the list that has a connection
CarryingPin(pins) ==
    LET hits == { i \in 1..Len(pins) :
                    "Connections" \in pins[i].Keys /\ Len(pins[i].Connections) # 0 }
    IN IF hits = {} THEN NoPin ELSE pins[CHOOSE i \in hits : \A j \in hits : j <= i]

\* the branches of lines_of_jump_logic_with_pins
JumpLogic(self, model, path_file, pins, indent_level, connections_num) ==
    IF connections_num = 0
    THEN Result("", << Indent(indent_level) \o << "jump " >> \o end_label \o << "\n" >> >>,
                log(self, path_file, NoTargetMessage(model)))
    ELSE IF connections_num = 1
    THEN lines_of_single_jump(self, CarryingPin(pins), model.Id, path_file, indent_level)
    ELSE TryWith(lines_of_menu(pins,
                               IF has_stage_direction(model, "display_text_box", << "False" >>)
                               THEN FALSE
                               ELSE IF has_stage_direction(model, "display_text_box",
                                                           << "True" >>)
                               THEN TRUE
                               ELSE menu_display_text_box,
                               indent_level, self.models),
                 self,
                 LAMBDA menu : Result("", menu.lines, self))

\* Converter.lines_of_jump_logic_with_pins
lines_of_jump_logic_with_pins(self, model, path_file, pins, indent_level) ==
    JumpLogic(self, model, path_file, pins, indent_level, get_connections_num(pins))

\* the pins that lines_of_jump_logic hands on: the output pins, or the input pins of
\* a FlowFragment or Dialogue that has an input pin with a "Connections" key
GoverningPins(model) ==
    LET output_pins_of_model == get_output_pins_of_model(model)
        input_pins_of_model == get_input_pins_of_model(model)
    IN IF /\ \/ model.Type \in node_type_inheritance("FlowFragment")
             \/ model.Type \in node_type_inheritance("Dialogue")
          /\ \E i \in 1..Len(input_pins_of_model) : "Connections" \in input_pins_of_model[i].Keys
       THEN input_pins_of_model
       ELSE output_pins_of_model

\* the end of lines_of_jump_logic, once the pins are chosen
JumpLogicOfPins(self, model, path_file, pins) ==
    IF Len(pins) = 0
    THEN Result("", << >>, log(self, path_file,
                               << "No pins for model with ID " >> \o IdStr(model.Id)))
    ELSE lines_of_jump_logic_with_pins(self, model, path_file, pins, 1)

\* Converter.lines_of_jump_logic
lines_of_jump_logic(self, model, path_file) ==
    JumpLogicOfPins(self, model, path_file, GoverningPins(model))

-----------------------------------------------------------------------------
(* converter.py: the lines of one node                                     *)

\* the text of a StageDirections field, entry by entry
RECURSIVE DirectionsText(_)
DirectionsText(directions) ==
    IF directions = << >> THEN << >>
    ELSE LET d == Head(directions)
             entry == CASE d.kind = "int" -> IntStr(d.n)
                        [] d.kind = "str" -> << d.name, "=\"" >> \o d.s \o << "\"" >>
                        [] d.kind = "flag" -> << d.name, "=" >> \o d.s
                        [] OTHER -> << "?" >>
         IN entry \o (IF Tail(directions) = << >> THEN << >> ELSE << "," >>)
                  \o DirectionsText(Tail(directions))

\* the loop of comment_lines_formatter: one comment for each line
CommentLines(lines) == [i \in 1..Len(lines) |-> INDENT \o << "# " >> \o lines[i] \o << "\n" >>]

\* Converter.comment_lines_formatter (indent_lvl 1, no prefix, no suffix)
comment_lines_formatter(text) ==
    CommentLines(SelectSeq(Split(Replace(text, << "\r" >>, << >>), "\n"),
                           LAMBDA line : line # << >>))

\* Converter.comment_lines
comment_lines(model, attr_to_ignore) ==
    << INDENT \o << "# ", model.Type, "\n" >> >>
    \o (IF /\ "DisplayName" \notin attr_to_ignore
           /\ "DisplayName" \in model.Keys
           /\ model.DisplayName # << >>
        THEN << INDENT \o << "# " >> \o model.DisplayName \o << "\n" >> >>
        ELSE << >>)
    \o (IF "StageDirections" \notin attr_to_ignore /\ "StageDirections" \in model.Keys
        THEN comment_lines_formatter(DirectionsText(model.StageDirections))
        ELSE << >>)
    \o (IF "Text" \notin attr_to_ignore /\ "Text" \in model.Keys
        THEN comment_lines_formatter(model.Text)
        ELSE << >>)

\* the loop of lines_of_renpy_say: one say statement for each line of the text
SayLines(model_text_lines, speaker_name, instructions_before, instructions_after) ==
    [i \in 1..Len(model_text_lines) |->
        INDENT \o speaker_name \o instructions_before \o << "\"" >> \o model_text_lines[i]
            \o << "\"" >> \o instructions_after \o << "\n" >>]

\* the speaker of a say statement and the instructions around it
SpeakerPrefix(name) == IF name # << >> THEN name \o << " " >> ELSE << >>
InstructionsBefore(before) == IF before.found THEN before.value \o << " " >> ELSE << >>
InstructionsAfter(after) == IF after.found THEN << " " >> \o after.value ELSE << >>

\* Converter.lines_of_renpy_say: text is the attribute to say, separator splits it
lines_of_renpy_say(self, model, text, separator) ==
    IF "StageDirections" \notin model.Keys THEN [err |-> "KeyError", lines |-> << >>]
    ELSE [err |-> "",
          lines |-> SayLines(SplitOn(preprocess_text(text), separator),
                             SpeakerPrefix(get_speaker_name(model,
                                               self.entity_id_to_character_name_map)),
                             InstructionsBefore(get_substr_between(model.StageDirections,
                                                                   "before")),
                             InstructionsAfter(get_substr_between(model.StageDirections,
                                                                  "after")))]

\* the loop over invalid_stage_directions that ends lines_of_dialogue_fragment and
\* lines_of_renpy_box
RECURSIVE LogInvalidDirections(_, _, _, _)
LogInvalidDirections(self, model, path_file, invalid) ==
    IF invalid = << >> THEN self
    ELSE LogInvalidDirections(
             log(self, path_file, get_label(model) \o << " invalid stage direction: " >>
                                      \o DirectionsText(<< Head(invalid) >>)),
             model, path_file, Tail(invalid))

\* Converter.lines_of_dialogue_fragment
lines_of_dialogue_fragment(self, model, path_file) ==
    Then(lines_of_label(self, model),
         LAMBDA label :
    TryWith(lines_of_renpy_say(label.self, model, model.Text, << "\r", "\n", "\r", "\n" >>),
            label.self,
         LAMBDA say :
    Then(lines_of_jump_logic(label.self, model, path_file),
         LAMBDA jump :
             Result("",
                    label.lines \o comment_lines(model, { "Text", "StageDirections" })
                        \o say.lines \o jump.lines \o << << "\n" >> >>,
                    LogInvalidDirections(
                        jump.self, model, path_file,
                        get_invalid_stage_directions(model,
                            { "speaker", "before", "after", "label" },
                            { "markdown", "display_text_box" }))))))

\* one turn of the loop of lines_of_renpy_logic: the line of code, if it is not empty
RenpyLogicLine(line, rest) ==
    Result("", (IF line # << >> THEN << INDENT \o line \o << "\n" >> >> ELSE << >>) \o rest.lines,
           rest.self)

\* text_starts_with(line, beginnings_log_lines)
text_starts_with(line) ==
    \/ StartsWith(Lower(line), << "#", " ", "t", "o", "d", "o" >>)
    \/ StartsWith(Lower(line), << "#", "t", "o", "d", "o" >>)

\* Converter.lines_of_renpy_logic: the lines of the code of a RenPyBox; no line of
\* the model's texts names a file, so check_file_references has nothing to log
RECURSIVE lines_of_renpy_logic(_, _, _, _)
lines_of_renpy_logic(self, text_lines, model, path_file) ==
    IF text_lines = << >> THEN Result("", << >>, self)
    ELSE RenpyLogicLine(
             Head(text_lines),
             lines_of_renpy_logic(
                 IF Head(text_lines) # << >> /\ text_starts_with(Head(text_lines))
                 THEN log(self, path_file,
                          get_label(model) \o << " contains the following line: " >>
                              \o Head(text_lines))
                 ELSE self,
                 Tail(text_lines), model, path_file))

\* Converter.lines_of_renpy_box (repeat_menu_text is False by default)
lines_of_renpy_box(self, model, path_file) ==
    Then(lines_of_label(self, model),
         LAMBDA label :
    Then(IF model.Text # << >>
         THEN lines_of_renpy_logic(label.self, SplitOn(model.Text, << "\r", "\n" >>),
                                   model, path_file)
         ELSE Result("", << >>, label.self),
         LAMBDA code :
    TryWith(IF /\ model.MenuText # << >>
               /\ has_stage_direction(model, "repeat_menu_text", << "True" >>)
            THEN lines_of_renpy_say(code.self, model, model.MenuText, << "\r", "\n" >>)
            ELSE [err |-> "", lines |-> << >>],
            code.self,
         LAMBDA say :
    Then(lines_of_jump_logic(code.self, model, path_file),
         LAMBDA jump :
             Result("",
                    label.lines \o << INDENT \o << "# ", model.Type, "\n" >> >> \o code.lines
                        \o say.lines \o jump.lines \o << << "\n" >> >>,
                    LogInvalidDirections(
                        jump.self, model, path_file,
                        get_invalid_stage_directions(model,
                            { "speaker", "before", "after", "label" },
                            { "markdown", "display_text_box", "relative_img",
                              "repeat_menu_text" })))))))

\* Converter.lines_of_flow_fragment, lines_of_dialogue and lines_of_hub_node: the
\* label, the comments and the jump logic
LabelCommentsJump(self, model, path_file) ==
    Then(lines_of_label(self, model),
         LAMBDA label :
    Then(lines_of_jump_logic(label.self, model, path_file),
         LAMBDA jump :
             Result("",
                    label.lines \o comment_lines(model, {}) \o jump.lines \o << << "\n" >> >>,
                    jump.self)))

lines_of_flow_fragment(self, model, path_file) == LabelCommentsJump(self, model, path_file)

lines_of_dialogue(self, model, path_file) == LabelCommentsJump(self, model, path_file)

lines_of_hub_node(self, model, path_file) == LabelCommentsJump(self, model, path_file)

\* Converter.lines_of_jump_node
lines_of_jump_node(self, model) ==
    Then(lines_of_label(self, model),
         LAMBDA label :
             IF get_model_with_id(model.Target, self.models) = NoModel
             THEN Result("TypeError", << >>, label.self)
             ELSE Result("",
                         label.lines \o comment_lines(model, {})
                             \o << INDENT \o << "jump " >>
                                       \o get_label(get_model_with_id(model.Target, self.models))
                                       \o << "\n" >>,
                                   << "\n" >> >>,
                         label.self))

\* a condition node that runs the outcome of its second pin under the "if" and that
\* of its first pin under the "else"
lines_of_condition_node_swapped(self, model, path_file) ==
    Then(lines_of_label(self, model),
         LAMBDA label :
    Then(lines_of_jump_logic_with_pins(label.self, model, path_file,
                                       << model.OutputPins[2] >>, 2),
         LAMBDA true :
    Then(lines_of_jump_logic_with_pins(true.self, model, path_file,
                                       << model.OutputPins[1] >>, 2),
         LAMBDA false :
             Result("",
                    label.lines \o comment_lines(model, { "DisplayName" })
                        \o << INDENT \o << "if " >>
                                  \o convert_condition_from_articy_to_python(model.Expression)
                                  \o << ":\n" >> >>
                        \o true.lines
                        \o << INDENT \o << "else:\n" >> >> \o false.lines
                        \o << << "\n" >> >>,
                    false.self))))

\* Converter.lines_of_condition_node
lines_of_condition_node(self, model, path_file) ==
    Then(lines_of_label(self, model),
         LAMBDA label :
    IF "OutputPins" \notin model.Keys THEN Result("KeyError", << >>, label.self)
    ELSE IF Len(model.OutputPins) < 1 THEN Result("IndexError", << >>, label.self)
    ELSE
    Then(lines_of_jump_logic_with_pins(label.self, model, path_file,
                                       << model.OutputPins[1] >>, 2),
         LAMBDA true :
    IF Len(model.OutputPins) < 2 THEN Result("IndexError", << >>, true.self)
    ELSE
    Then(lines_of_jump_logic_with_pins(true.self, model, path_file,
                                       << model.OutputPins[2] >>, 2),
         LAMBDA false :
             Result("",
                    label.lines \o comment_lines(model, { "DisplayName" })
                        \o << INDENT \o << "if " >>
                                  \o convert_condition_from_articy_to_python(
                                         Replace(Replace(model.Expression,
                                                         << "\r" >>, << " " >>),
                                                 << "\n" >>, << " " >>))
                                  \o << ":\n" >> >>
                        \o true.lines
                        \o << INDENT \o << "else:\n" >> >> \o false.lines
                        \o << << "\n" >> >>,
                    false.self))))

\* Converter.lines_of_instruction_node
lines_of_instruction_node(self, model, path_file) ==
    Then(lines_of_label(self, model),
         LAMBDA label :
    Then(lines_of_jump_logic(label.self, model, path_file),
         LAMBDA jump :
             Result("",
                    label.lines \o comment_lines(model, { "DisplayName" })
                        \o lines_of_expression(model.Expression, 1) \o jump.lines
                        \o << << "\n" >> >>,
                    jump.self)))

-----------------------------------------------------------------------------
(* converter.py: paths, the hierarchy, the files                           *)

\* a path is the sequence of its components
path_base_dir == << << "game" >>, << "articy" >> >>

\* path / name  (pathlib: joining '' leaves the path as it is)
Join(path, name) == IF name = << >> THEN path ELSE Append(path, name)

\* path.parent
ParentDir(path) == IF path = << >> THEN path ELSE SubSeq(path, 1, Len(path) - 1)

\* path.relative_to(self.path_base_dir)
relative_to_base(path) == SubSeq(path, Len(path_base_dir) + 1, Len(path))

base_file == Join(path_base_dir, file_prefix \o << "start.rpy" >>)
variables_file == Join(path_base_dir, file_prefix \o << "variables.rpy" >>)
characters_file == Join(path_base_dir, file_prefix \o << "characters.rpy" >>)
log_file == Join(path_base_dir, file_prefix \o << "log.txt" >>)

\* the name of the directory of a container: DisplayName.lower().replace(' ', '_')
dir_name(model) == Replace(Lower(model.DisplayName), << " " >>, << "_" >>)

\* hierarchy_element['Children']: the hierarchy of the export lists under an element
\* the models whose Parent it is
Children(element_id, ms) ==
    LET kids == get_models_with_parent(element_id, ms)
    IN [i \in 1..Len(kids) |-> kids[i].Id]

IsContainer(model) ==
    \/ model.Type \in node_type_inheritance("FlowFragment")
    \/ model.Type \in node_type_inheritance("Dialogue")

\* Converter.create_flow_hierarchy_dirs for each element of a list of siblings:
\* the hierarchy_path_map afterwards
RECURSIVE create_flow_hierarchy_dirs(_, _, _, _)
create_flow_hierarchy_dirs(map, elements, path_parent, ms) ==
    IF elements = << >> THEN map
    ELSE LET element_id == Head(elements)
             element_model == get_model_with_id(element_id, ms)
             path_element_dir == Join(path_parent, dir_name(element_model))
             below == create_flow_hierarchy_dirs(Put(map, element_id, path_element_dir),
                                                 Children(element_id, ms), path_element_dir, ms)
         IN IF ~IsContainer(element_model)
            THEN create_flow_hierarchy_dirs(map, Tail(elements), path_parent, ms)
            ELSE create_flow_hierarchy_dirs(below, Tail(elements), path_parent, ms)

\* the file of a container: its directory / (file_prefix + directory name + ".rpy")
FragmentFile(map, flow_fragment_id) ==
    LET dir == Get(map, flow_fragment_id)
    IN Join(dir, file_prefix \o dir[Len(dir)] \o << ".rpy" >>)

\* Converter.write_lines_for_model: the lines it appends to the file
write_lines_for_model(self, model, path_file) ==
    LET rel_path_to_file == relative_to_base(path_file)
        other_file == Get(self.hierarchy_path_map, model.Id) # ParentDir(path_file)
    IN IF model.Type \in node_type_inheritance("DialogueFragment")
       THEN lines_of_dialogue_fragment(self, model, rel_path_to_file)
       ELSE IF model.Type \in node_type_inheritance("Dialogue")
       THEN IF model.Id \notin Keys(self.hierarchy_path_map) THEN Result("KeyError", << >>, self)
            ELSE IF other_file THEN Result("", << >>, self)
            ELSE lines_of_dialogue(self, model, rel_path_to_file)
       ELSE IF model.Type \in node_type_inheritance("FlowFragment")
       THEN IF model.Id \notin Keys(self.hierarchy_path_map) THEN Result("KeyError", << >>, self)
            ELSE IF other_file THEN Result("", << >>, self)
            ELSE lines_of_flow_fragment(self, model, rel_path_to_file)
       ELSE IF model.Type \in node_type_inheritance("Jump")
       THEN lines_of_jump_node(self, model)
       ELSE IF model.Type \in node_type_inheritance("Hub")
       THEN lines_of_hub_node(self, model, rel_path_to_file)
       ELSE IF model.Type \in renpy_box_types
       THEN lines_of_renpy_box(self, model, rel_path_to_file)
       ELSE IF model.Type \in node_type_inheritance("Condition")
       THEN lines_of_condition_node(self, model, rel_path_to_file)
       ELSE IF model.Type \in node_type_inheritance("Instruction")
       THEN lines_of_instruction_node(self, model, rel_path_to_file)
       ELSE IF model.Type \in { "Comment" }
       THEN Result("", << >>, self)
       ELSE Result("", << >>,
                   log(self, rel_path_to_file,
                       << "Type \"", model.Type, "\" of model " >> \o IdStr(model.Id)
                           \o << " is not supported" >>))

\* the end of lines_of_character_definition, from get_free_character_name on
CharacterDefinition(self, model, character_name) ==
    Then(add_new_definition([self EXCEPT !.entity_id_to_character_name_map =
                                Put(@, model.Id, character_name)],
                            character_name),
         LAMBDA defined :
             Result("",
                    << << "# Entity: " >> \o model.DisplayName \o << "\n" >>,
                       << "define " >> \o character_name \o << " = Character(\n" >>,
                       INDENT \o << "name=\"" >> \o model.DisplayName \o << "\",\n" >>,
                       << ")\n" >> >>,
                    defined.self))

\* the middle of lines_of_character_definition: an empty name becomes "unnamed", with
\* a diagnostic, and the prefix is put before the name
NamedCharacter(self, model, character_name) ==
    IF character_name = << >>
    THEN CharacterDefinition(
             log(self, characters_file, << "Unnamed character with ID " >> \o IdStr(model.Id)),
             model,
             get_free_character_name(character_prefix \o << "unnamed" >>,
                                     self.entity_id_to_character_name_map))
    ELSE CharacterDefinition(
             self, model,
             get_free_character_name(character_prefix \o character_name,
                                     self.entity_id_to_character_name_map))

\* Converter.lines_of_character_definition
lines_of_character_definition(self, model) ==
    NamedCharacter(self, model,
                   IF "Template" \in model.Keys /\ model.CharacterName # << >>
                   THEN model.CharacterName
                   ELSE Strip(Lower(Head(Split(model.DisplayName, " ")))))

\* the loop of Converter.write_characters_file
RECURSIVE CharacterLines(_, _)
CharacterLines(self, ms) ==
    IF ms = << >> THEN Result("", << >>, self)
    ELSE IF Head(ms).Type \notin entity_types THEN CharacterLines(self, Tail(ms))
    ELSE Then(lines_of_character_definition(self, Head(ms)),
              LAMBDA one :
                  Then(CharacterLines(one.self, Tail(ms)),
                       LAMBDA rest :
                           Result("", one.lines \o << << "\n" >> >> \o rest.lines, rest.self)))

\* Converter.lines_of_namespace for a namespace without variables
lines_of_namespace(self, namespace) ==
    IF namespace = << >> THEN Result("IndexError", << >>, self)
    ELSE Then(add_new_definition(self, << LowerChar(namespace[1]) >> \o Tail(namespace)),
              LAMBDA defined :
                  Result("",
                         << << "# Namespace: ", LowerChar(namespace[1]) >> \o Tail(namespace)
                                \o << "\n" >>,
                            << "\n" >>, << "\n" >> >>,
                         defined.self))

\* the loop of Converter.write_file_for_variables
RECURSIVE NamespaceLines(_, _)
NamespaceLines(self, namespaces) ==
    IF namespaces = << >> THEN Result("", << >>, self)
    ELSE Then(lines_of_namespace(self, Head(namespaces)),
              LAMBDA one :
                  Then(NamespaceLines(one.self, Tail(namespaces)),
                       LAMBDA rest : Result("", one.lines \o rest.lines, rest.self)))

-----------------------------------------------------------------------------
(* converter.py: run()                                                     *)

\* Hierarchy.Children of the export: the id of the element of Type "Flow", whose
\* children are the uppermost flow elements, and the id of the folder of the entities
FlowRoot == 90
EntitiesRoot == 91

\* how often run() is called on the Converter
MaxRuns == 2

\* what a handler call was given and what it returned
Call(op, arg, err, lines) ==
    [op |-> op, arg |-> arg, err |-> err, lines |-> lines, value |-> None]

\* the same for a function that returns an id (or None) instead of lines
Returned(op, arg, err, value) ==
    [op |-> op, arg |-> arg, err |-> err, lines |-> << >>, value |-> value]

\* the pin ids that read_data collects under a key
PinIds(ms, key) ==
    UNION { { (IF key = "InputPins" THEN ms[i].InputPins ELSE ms[i].OutputPins)[j].Id :
                j \in 1..Len(IF key = "InputPins" THEN ms[i].InputPins ELSE ms[i].OutputPins) } :
            i \in { k \in 1..Len(ms) : key \in ms[k].Keys } }

\* the fields of self after a line builder has returned
Adopt(self) ==
    /\ renpy_definitions' = self.renpy_definitions
    /\ log_data' = self.log_data
    /\ entity_id_to_character_name_map' = self.entity_id_to_character_name_map
    /\ issued' = self.issued

\* an exception leaves run()
Raise(err) == pc' = "fatal" /\ error' = err

\* f.writelines(lines) on a file opened with 'a'
AppendLines(fs, path, lines) == Put(fs, path, Get(fs, path) \o lines)

\* Converter.read_data
ReadData ==
    /\ pc \in { "idle", "done", "fatal" }
    /\ cursor.run < MaxRuns
    /\ models' = data.Models
    /\ input_pins' = PinIds(data.Models, "InputPins")
    /\ output_pins' = PinIds(data.Models, "OutputPins")
    /\ hierarchy_flow' = Children(FlowRoot, data.Models)
    /\ hierarchy_path_map' = << >>
    /\ global_variables' = data.GlobalVariables
    /\ entity_id_to_character_name_map' = << >>
    /\ renpy_definitions' = {}
    /\ log_data' = << >>
    /\ issued' = << >>
    /\ cursor' = [run |-> cursor.run + 1, frag |-> 0, child |-> 0]
    /\ pc' = "clean_up"
    /\ error' = ""
    /\ last' = Call("read_data", None, "", << >>)
    /\ UNCHANGED << data, base_dir, files >>

\* what is left in path_base_dir, and the log, after the removal loop of clean_up
RECURSIVE RemoveContents(_, _)
RemoveContents(items, ld) ==
    IF items = << >> THEN [left |-> << >>, log_data |-> ld]
    ELSE LET item == Head(items)
             msg == << "Failed to delete " >> \o item.name
             rest == RemoveContents(Tail(items),
                                    IF item.locked THEN Put(ld, path_base_dir, << msg >>) ELSE ld)
         IN [left |-> (IF item.locked THEN << item >> ELSE << >>) \o rest.left,
             log_data |-> rest.log_data]

\* Converter.clean_up
CleanUp ==
    /\ pc = "clean_up"
    /\ LET expected_dir_names ==
               { dir_name(get_model_with_id(hierarchy_flow[i], models)) :
                   i \in 1..Len(hierarchy_flow) }
           unexpected ==
               \E i \in 1..Len(base_dir.items) :
                   LET item == base_dir.items[i]
                   IN \/ item.is_dir /\ item.name \notin expected_dir_names
                      \/ ~item.is_dir /\ ~StartsWith(item.name, file_prefix)
           removed == RemoveContents(base_dir.items, log_data)
       IN IF ~base_dir.exists
          THEN /\ pc' = "create_flow_hierarchy"
               /\ UNCHANGED << base_dir, files, log_data, error >>
          ELSE IF unexpected
          THEN /\ Raise("UnexpectedContentException")
               /\ UNCHANGED << base_dir, files, log_data >>
          ELSE /\ pc' = "create_flow_hierarchy"
               /\ base_dir' = [base_dir EXCEPT !.items = removed.left]
               /\ log_data' = removed.log_data
               /\ files' = << >>
               /\ UNCHANGED error
    /\ last' = Call("clean_up", None, "", << >>)
    /\ UNCHANGED << data, models, hierarchy_flow, global_variables, input_pins, output_pins,
                    hierarchy_path_map, entity_id_to_character_name_map, renpy_definitions,
                    cursor, issued >>

\* the loop of run() over create_flow_hierarchy_dirs
CreateFlowHierarchy ==
    /\ pc = "create_flow_hierarchy"
    /\ hierarchy_path_map' =
           create_flow_hierarchy_dirs(<< >>, hierarchy_flow, path_base_dir, models)
    /\ base_dir' = [base_dir EXCEPT !.exists = @ \/ hierarchy_path_map' # << >>]
    /\ pc' = "write_base_file"
    /\ last' = Call("create_flow_hierarchy_dirs", None, "", << >>)
    /\ UNCHANGED << data, models, hierarchy_flow, global_variables, input_pins, output_pins,
                    entity_id_to_character_name_map, renpy_definitions, log_data, files,
                    cursor, error, issued >>

\* Converter.write_base_file
WriteBaseFile ==
    /\ pc = "write_base_file"
    /\ LET first_model == get_model_with_id(hierarchy_flow[1], models)
           lines == << << "# Entry point of the game\n" >>,
                       << "label " >> \o start_label \o << ":\n" >>,
                       INDENT \o << "jump " >> \o get_label(first_model) \o << "\n" >>,
                       << "\n" >>,
                       << "label " >> \o end_label \o << ":\n" >>,
                       INDENT \o << "return\n" >> >>
       IN IF hierarchy_flow = << >> \/ ~base_dir.exists
          THEN /\ Raise(IF hierarchy_flow = << >> THEN "IndexError" ELSE "FileNotFoundError")
               /\ last' = Call("write_base_file", None, error', << >>)
               /\ UNCHANGED files
          ELSE /\ files' = Put(files, base_file, lines)
               /\ pc' = "write_characters_file"
               /\ last' = Call("write_base_file", None, "", lines)
               /\ UNCHANGED error
    /\ UNCHANGED << data, models, hierarchy_flow, global_variables, base_dir, input_pins,
                    output_pins, hierarchy_path_map, entity_id_to_character_name_map,
                    renpy_definitions, log_data, cursor, issued >>

\* the end of write_characters_file: the lines go to the file, or the exception
\* leaves run()
CharactersWritten(r) ==
    /\ Adopt(r.self)
    /\ last' = Call("write_characters_file", None, r.err, r.lines)
    /\ IF r.err # ""
       THEN Raise(r.err) /\ UNCHANGED files
       ELSE /\ files' = Put(files, characters_file, r.lines)
            /\ pc' = "write_file_for_variables"
            /\ UNCHANGED error

\* Converter.write_characters_file
WriteCharactersFile ==
    /\ pc = "write_characters_file"
    /\ CharactersWritten(CharacterLines(Self, models))
    /\ UNCHANGED << data, models, hierarchy_flow, global_variables, base_dir, input_pins,
                    output_pins, hierarchy_path_map, cursor >>

\* the end of write_file_for_variables
VariablesWritten(r) ==
    /\ Adopt(r.self)
    /\ last' = Call("write_file_for_variables", None, r.err, r.lines)
    /\ IF r.err # ""
       THEN Raise(r.err) /\ UNCHANGED << files, cursor >>
       ELSE /\ files' = Put(files, variables_file, r.lines)
            /\ pc' = IF hierarchy_path_map = << >> THEN "write_log_file"
                     ELSE "write_flow_fragment_files"
            /\ cursor' = [cursor EXCEPT !.frag = 1, !.child = 0]
            /\ UNCHANGED error

\* Converter.write_file_for_variables
WriteFileForVariables ==
    /\ pc = "write_file_for_variables"
    /\ VariablesWritten(NamespaceLines(Self, global_variables))
    /\ UNCHANGED << data, models, hierarchy_flow, global_variables, base_dir, input_pins,
                    output_pins, hierarchy_path_map >>

\* the loops of run() and of write_file_for_flow_fragment_id move on
\* a loop that leaves out the node behind the one it has written
AdvanceSkipping ==
    IF cursor.child + 1
           < Len(get_models_with_parent(hierarchy_path_map[cursor.frag].key, models))
    THEN pc' = pc /\ cursor' = [cursor EXCEPT !.child = @ + 2]
    ELSE pc' = "write_log_file" /\ cursor' = cursor

Advance ==
    LET flow_fragment_id == hierarchy_path_map[cursor.frag].key
        child_models == get_models_with_parent(flow_fragment_id, models)
    IN IF cursor.child < Len(child_models)
       THEN pc' = pc /\ cursor' = [cursor EXCEPT !.child = @ + 1]
       ELSE IF cursor.frag < Len(hierarchy_path_map)
       THEN pc' = pc /\ cursor' = [cursor EXCEPT !.frag = @ + 1, !.child = 0]
       ELSE pc' = "write_log_file" /\ cursor' = cursor

\* what write_file_for_flow_fragment_id does with the lines of a model: they are
\* appended to the file as it is on disk, or the exception leaves run()
ModelWritten(r, model_id, path_file, on_disk) ==
    /\ Adopt(r.self)
    /\ last' = Call("write_lines_for_model", model_id, r.err, r.lines)
    /\ IF r.err # ""
       THEN Raise(r.err) /\ files' = on_disk /\ UNCHANGED cursor
       ELSE /\ files' = AppendLines(on_disk, path_file, r.lines)
            /\ Advance
            /\ UNCHANGED error

\* Converter.write_file_for_flow_fragment_id up to its loop over the children: the
\* file is opened with 'w' and the lines of the container itself are written
WriteFlowFragment ==
    /\ pc = "write_flow_fragment_files"
    /\ cursor.child = 0
    /\ ModelWritten(write_lines_for_model(
                        Self, get_model_with_id(hierarchy_path_map[cursor.frag].key, models),
                        FragmentFile(hierarchy_path_map, hierarchy_path_map[cursor.frag].key)),
                    hierarchy_path_map[cursor.frag].key,
                    FragmentFile(hierarchy_path_map, hierarchy_path_map[cursor.frag].key),
                    Put(files, FragmentFile(hierarchy_path_map,
                                            hierarchy_path_map[cursor.frag].key),
                        << << "\n" >> >>))
    /\ UNCHANGED << data, models, hierarchy_flow, global_variables, base_dir, input_pins,
                    output_pins, hierarchy_path_map >>

\* one turn of the loop over the children in write_file_for_flow_fragment_id
WriteChildModel ==
    /\ pc = "write_flow_fragment_files"
    /\ cursor.child > 0
    /\ ModelWritten(write_lines_for_model(
                        Self,
                        get_models_with_parent(hierarchy_path_map[cursor.frag].key,
                                               models)[cursor.child],
                        FragmentFile(hierarchy_path_map, hierarchy_path_map[cursor.frag].key)),
                    get_models_with_parent(hierarchy_path_map[cursor.frag].key,
                                           models)[cursor.child].Id,
                    FragmentFile(hierarchy_path_map, hierarchy_path_map[cursor.frag].key),
                    files)
    /\ UNCHANGED << data, models, hierarchy_flow, global_variables, base_dir, input_pins,
                    output_pins, hierarchy_path_map >>

\* the lines of the log file
RECURSIVE LogLines(_)
LogLines(ld) ==
    IF ld = << >> THEN << >>
    ELSE << Flatten(Head(ld).key) \o << "\n" >> >>
         \o [i \in 1..Len(Head(ld).value) |-> INDENT \o Head(ld).value[i] \o << "\n" >>]
         \o LogLines(Tail(ld))

\* Converter.write_log_file
WriteLogFile ==
    /\ pc = "write_log_file"
    /\ files' = Put(files, log_file, << << "\n" >> >> \o LogLines(log_data))
    /\ pc' = "done"
    /\ last' = Call("write_log_file", None, "", << >>)
    /\ UNCHANGED << data, models, hierarchy_flow, global_variables, base_dir, input_pins,
                    output_pins, hierarchy_path_map, entity_id_to_character_name_map,
                    renpy_definitions, log_data, cursor, error, issued >>

Next ==
    \/ ReadData
    \/ CleanUp
    \/ CreateFlowHierarchy
    \/ WriteBaseFile
    \/ WriteCharactersFile
    \/ WriteFileForVariables
    \/ WriteFlowFragment
    \/ WriteChildModel
    \/ WriteLogFile

-----------------------------------------------------------------------------
(* The exports the model draws                                             *)

\* the optional keys that the export writes for a model of a type
SchemaKeys(type) ==
    CASE type \in { "DialogueFragment", "RenPyBox", "Narration" } ->
             { "Text", "MenuText", "StageDirections", "InputPins", "OutputPins" }
      [] type \in { "FlowFragment", "Dialogue", "Hub", "Jump", "Condition", "Instruction" } ->
             { "DisplayName", "Text", "InputPins", "OutputPins" }
      [] type \in { "Entity", "Character" } -> { "DisplayName", "Text", "Template" }
      [] type = "Location" -> { "DisplayName", "Text" }
      [] OTHER -> { "Text" }

\* a pin without a "Connections" key, and a pin with one
PinWithout(id, owner, text) == Pin(id, owner, text, {}, << >>)
PinWith(id, owner, text, connections) == Pin(id, owner, text, { "Connections" }, connections)

\* an output pin in one of the shapes the exports of the model take
ShapedPin(id, owner, text, connections) ==
    IF connections = << >> THEN PinWithout(id, owner, text)
    ELSE PinWith(id, owner, text, connections)

\* a node of the flow: the keys follow the schema of its type
Node(type, id, parent, name, text, menu_text, directions, expression, target, in_pins, out_pins) ==
    Model(type, id, parent, SchemaKeys(type),
          IF "DisplayName" \in SchemaKeys(type) THEN name ELSE << >>,
          text,
          IF "MenuText" \in SchemaKeys(type) THEN menu_text ELSE << >>,
          IF "StageDirections" \in SchemaKeys(type) THEN directions ELSE << >>,
          expression, target, None,
          IF "InputPins" \in SchemaKeys(type) THEN in_pins ELSE << >>,
          IF "OutputPins" \in SchemaKeys(type) THEN out_pins ELSE << >>,
          << >>)

\* an entity
Entity(type, id, name, character_name) ==
    Model(type, id, EntitiesRoot, SchemaKeys(type), name, << >>, << >>, << >>, << >>,
          None, None, << >>, << >>, character_name)

\* the state of a Converter after __init__
Constructed ==
    /\ models = << >>
    /\ hierarchy_flow = << >>
    /\ global_variables = << >>
    /\ input_pins = {}
    /\ output_pins = {}
    /\ hierarchy_path_map = << >>
    /\ entity_id_to_character_name_map = << >>
    /\ renpy_definitions = {}
    /\ log_data = << >>
    /\ files = << >>
    /\ pc = "idle"
    /\ cursor = [run |-> 0, frag |-> 0, child |-> 0]
    /\ error = ""
    /\ issued = << >>
    /\ last = Call("__init__", None, "", << >>)

\* the connections of the output pin of node 2 in the exports of Spec
Node2Connections ==
    { << >>,
      << Connection(3, 31, << >>) >>,
      << Connection(4, 41, << >>) >>,
      << Connection(1, 12, << >>) >>,
      << Connection(4, 41, << "g", "o" >>), Connection(3, 31, << >>) >> }

\* the types of node 2 in the exports of Spec
Node2Types ==
    { "DialogueFragment", "Narration", "RenPyBox", "Hub", "Instruction", "Condition", "Jump",
      "Comment", "Location" }

\* the stage directions of node 3 and of node 4 in the exports of Spec
LabelDirections ==
    { << >>,
      << DirStr("label", << "intro" >>) >>,
      << DirInt(2), DirStr("label", label_prefix \o IdStr(2)) >>,
      << DirOther, DirStr("label", end_label) >> }

\* the entities, the namespaces and the directory contents of the exports of Spec
EntityChoices ==
    { << >>,
      << Entity("Character", 7, << "A", "l" >>, << >>) >>,
      << Entity("Character", 7, << "A", "l" >>, << >>),
         Entity("Character", 8, << "a", "l", " ", "B" >>, << >>),
         Entity("Entity", 9, << "E", "v", "e" >>, << >>) >> }

NamespaceChoices == { << >>, << << "G", "a", "m", "e" >> >>,
                      << << "A", "b" >>, << "a", "b" >> >> }

Item(name, is_dir, locked) == [name |-> name, is_dir |-> is_dir, locked |-> locked]

BaseDirChoices ==
    { [exists |-> FALSE, items |-> << >>],
      [exists |-> TRUE, items |-> << Item(file_prefix \o << "old.rpy" >>, FALSE, FALSE) >>],
      [exists |-> TRUE, items |-> << Item(<< "notes.txt" >>, FALSE, FALSE) >>],
      [exists |-> TRUE, items |-> << Item(file_prefix \o << "a.rpy" >>, FALSE, TRUE),
                                     Item(file_prefix \o << "b.rpy" >>, FALSE, TRUE) >>] }

\* an export: a container "Chapter A" (1) with the nodes 2, 3 and 4 in it, the
\* entities before or after the nodes
Export(type2, connections2, type3, directions3, directions4, entities, entities_first, namespaces) ==
    LET chapter == Node("FlowFragment", 1, FlowRoot, << "C", "h", " ", "A" >>, << >>, << >>,
                        << >>, << >>, None,
                        << PinWith(11, 1, << >>, << Connection(2, 21, << >>) >>) >>,
                        << PinWithout(12, 1, << >>) >>)
        node2 == Node(type2, 2, 1, << "n", "2" >>, << "H", "i" >>, << >>, << >>,
                      << "x", "=", "1" >>, 3,
                      << PinWithout(21, 2, << >>) >>,
                      IF type2 = "Condition"
                      THEN << ShapedPin(22, 2, << >>, connections2), PinWithout(23, 2, << >>) >>
                      ELSE << ShapedPin(22, 2, << >>, connections2) >>)
        node3 == Node(type3, 3, 1, << "n", "3" >>, << "Y", "e", "s" >>, << "y" >>,
                      directions3, << >>, None,
                      << PinWithout(31, 3, << >>) >>,
                      << PinWith(32, 3, << >>, << Connection(4, 41, << >>) >>) >>)
        node4 == Node("DialogueFragment", 4, 1, << >>, << "N", "o" >>, << >>, directions4,
                      << >>, None,
                      << PinWithout(41, 4, << >>) >>, << PinWithout(42, 4, << >>) >>)
        nodes == << chapter, node2, node3, node4 >>
    IN [Models |-> IF entities_first THEN entities \o nodes ELSE nodes \o entities,
        GlobalVariables |-> namespaces]

Init ==
    /\ Constructed
    /\ \E type2 \in Node2Types, connections2 \in Node2Connections,
          type3 \in { "DialogueFragment", "Hub" },
          directions3 \in LabelDirections,
          directions4 \in { << >>, << DirStr("label", << "intro" >>) >> },
          entities \in EntityChoices, entities_first \in BOOLEAN,
          namespaces \in NamespaceChoices :
          /\ type3 = "Hub" => directions3 = << >>
          /\ entities = << >> => ~entities_first
          /\ connections2 # << >> => type2 \in { "DialogueFragment", "Hub", "Condition" }
          /\ namespaces # << >> => entities = << >> /\ directions4 = << >>
          /\ data = Export(type2, connections2, type3, directions3, directions4, entities,
                           entities_first, namespaces)
    /\ base_dir \in BaseDirChoices
    /\ base_dir.exists /\ base_dir.items # << >> =>
           data = Export("Hub", << >>, "Hub", << >>, << >>, << >>, FALSE, << >>)

Spec == Init /\ [][Next]_vars

-----------------------------------------------------------------------------
(* Properties of run(): the symbol table                                   *)

NoDuplicates(seq) == \A i, j \in 1..Len(seq) : seq[i] = seq[j] => i = j

\* the model that write_file_for_flow_fragment_id hands to write_lines_for_model in
\* the next step, and the file it writes
CurrentFile == FragmentFile(hierarchy_path_map, hierarchy_path_map[cursor.frag].key)

CurrentModel ==
    IF cursor.child = 0 THEN get_model_with_id(hierarchy_path_map[cursor.frag].key, models)
    ELSE get_models_with_parent(hierarchy_path_map[cursor.frag].key, models)[cursor.child]

\* write_lines_for_model calls a builder for the model, and every builder begins with
\* lines_of_label
Labelled(model) ==
    /\ model.Type \in renpy_box_types \cup
           UNION { node_type_inheritance(class) :
                     class \in { "DialogueFragment", "Dialogue", "FlowFragment", "Jump", "Hub",
                                 "Condition", "Instruction" } }
    /\ IsContainer(model) =>
           /\ model.Id \in Keys(hierarchy_path_map)
           /\ Get(hierarchy_path_map, model.Id) = ParentDir(CurrentFile)

\* the next step compiles a node whose label is in the symbol table already
Collision ==
    /\ pc = "write_flow_fragment_files"
    /\ Labelled(CurrentModel)
    /\ get_label(CurrentModel) \in renpy_definitions

\* the identifiers that the nodes and the table of a state offer to add_new_definition
Identifiers == renpy_definitions \cup { get_label(models[i]) : i \in 1..Len(models) }

\* add_new_definition(x) adds an absent x, and raises on a present x and leaves the
\* table as it is
AddsOrRaises(x) ==
    IF x \in renpy_definitions
    THEN /\ add_new_definition(Self, x).err = "ValueError"
         /\ add_new_definition(Self, x).self.renpy_definitions = renpy_definitions
    ELSE /\ add_new_definition(Self, x).err = ""
         /\ add_new_definition(Self, x).self.renpy_definitions = renpy_definitions \cup { x }

\* C1: in every state of a run the symbol table holds each identifier once (the
\* identifiers were added one by one, none twice), add_new_definition(x) adds an
\* absent x and raises on a present x without changing the table, and within a run
\* (every step but read_data, which begins a run) the table only grows
C1_SymbolTableUniqueAndGrowing ==
    /\ [](/\ NoDuplicates(issued)
          /\ Range(issued) = renpy_definitions
          /\ \A x \in Identifiers : AddsOrRaises(x))
    /\ [][pc' # "clean_up" => renpy_definitions \subseteq renpy_definitions']_vars

\* a run has added identifiers and was then stopped by the duplicate error
C1_Witness ==
    /\ pc = "fatal"
    /\ error = "ValueError"
    /\ Len(issued) >= 2
    /\ last.op = "write_lines_for_model"

\* C2: a step that compiles a node whose label is in the symbol table ends the run
\* with the duplicate error, writes no line of that node (the file of a container is
\* left as it was opened) and adds nothing to the table; after the run has ended that
\* way no step writes a file or adds an identifier: the only step is the read_data of
\* another call of run()
C2_CollisionAbortsRun ==
    [][/\ Collision =>
            /\ pc' = "fatal"
            /\ error' = "ValueError"
            /\ last'.lines = << >>
            /\ renpy_definitions' = renpy_definitions
            /\ files' = IF cursor.child = 0 THEN Put(files, CurrentFile, << << "\n" >> >>)
                        ELSE files
       /\ pc = "fatal" =>
            /\ cursor'.run = cursor.run + 1
            /\ pc' = "clean_up"
            /\ files' = files]_vars

\* a run was stopped by a label that was in the table, with nodes of the container
\* still to come
C2_Witness ==
    /\ pc = "fatal"
    /\ error = "ValueError"
    /\ cursor.child > 0
    /\ cursor.child < Len(get_models_with_parent(hierarchy_path_map[cursor.frag].key, models))
    /\ last.arg = CurrentModel.Id
    /\ last.lines = << >>

-----------------------------------------------------------------------------
(* write_characters_file, one entity at a time                             *)

\* how many models the exports of SpecCharacters hold
MaxEntities == 3

\* the models of those exports: characters that infer the same name from different
\* display names, a character without a name, characters with a name given in the
\* template, and a model that is no entity
CharacterChoices ==
    { [type |-> "Character", name |-> << "A", "l" >>, given |-> << >>],
      [type |-> "Character", name |-> << "a", "l", " ", "B" >>, given |-> << >>],
      [type |-> "Character", name |-> << >>, given |-> << >>],
      [type |-> "Character", name |-> << "B", "o" >>, given |-> << "a", "l" >>],
      [type |-> "Character", name |-> << "B", "o" >>, given |-> << "a", "l", "_", "1" >>],
      [type |-> "Location", name |-> << "A", "l" >>, given |-> << >>] }

\* the state in which run() calls write_characters_file
InitCharacters ==
    /\ \E n \in 1..MaxEntities : \E choice \in [1..n -> CharacterChoices] :
           data = [Models |-> [i \in 1..n |-> Entity(choice[i].type, 70 + i, choice[i].name,
                                                     choice[i].given)],
                   GlobalVariables |-> << >>]
    /\ models = data.Models
    /\ hierarchy_flow = << >>
    /\ global_variables = << >>
    /\ base_dir = [exists |-> TRUE, items |-> << >>]
    /\ input_pins = {}
    /\ output_pins = {}
    /\ hierarchy_path_map = << >>
    /\ entity_id_to_character_name_map = << >>
    /\ renpy_definitions = {}
    /\ log_data = << >>
    /\ files = << >>
    /\ pc = "write_characters_file"
    /\ cursor = [run |-> 1, frag |-> 0, child |-> 0]
    /\ error = ""
    /\ issued = << >>
    /\ last = Call("read_data", None, "", << >>)

\* what the loop of write_characters_file does with the lines of a character
CharacterDefined(r) ==
    /\ Adopt(r.self)
    /\ last' = Call("lines_of_character_definition", models[cursor.child + 1].Id, r.err, r.lines)
    /\ IF r.err # ""
       THEN Raise(r.err) /\ UNCHANGED cursor
       ELSE /\ cursor' = [cursor EXCEPT !.child = @ + 1]
            /\ UNCHANGED << pc, error >>

\* one turn of the loop of write_characters_file on an entity
DefineCharacter ==
    /\ pc = "write_characters_file"
    /\ cursor.child < Len(models)
    /\ models[cursor.child + 1].Type \in entity_types
    /\ CharacterDefined(lines_of_character_definition(Self, models[cursor.child + 1]))
    /\ UNCHANGED << data, models, hierarchy_flow, global_variables, base_dir, input_pins,
                    output_pins, hierarchy_path_map, files >>

\* one turn of the loop of write_characters_file on a model that is no entity
SkipModel ==
    /\ pc = "write_characters_file"
    /\ cursor.child < Len(models)
    /\ models[cursor.child + 1].Type \notin entity_types
    /\ cursor' = [cursor EXCEPT !.child = @ + 1]
    /\ last' = Call("continue", models[cursor.child + 1].Id, "", << >>)
    /\ UNCHANGED << data, models, hierarchy_flow, global_variables, base_dir, input_pins,
                    output_pins, hierarchy_path_map, entity_id_to_character_name_map,
                    renpy_definitions, log_data, files, pc, error, issued >>

NextCharacters ==
    \/ DefineCharacter
    \/ SkipModel

SpecCharacters == InitCharacters /\ [][NextCharacters]_vars

\* the name an entity claims: the name given in its template, else the first word of
\* its display name in lower case, else "unnamed"; the prefix comes before it
ClaimedName(model) ==
    character_prefix \o
        (IF model.CharacterName # << >> THEN model.CharacterName
         ELSE IF Strip(Lower(Head(Split(model.DisplayName, " ")))) # << >>
         THEN Strip(Lower(Head(Split(model.DisplayName, " "))))
         ELSE << "unnamed" >>)

\* the name with the suffix k
Suffixed(base, k) == base \o << "_" >> \o IntStr(k)

\* the name a claimant of base is due when the names of taken are assigned: base, or
\* base_k for the smallest k >= 1 with base_k not assigned
DueName(base, taken) ==
    IF base \notin taken THEN base
    ELSE Suffixed(base, CHOOSE k \in 1..(Cardinality(taken) + 1) :
                            /\ Suffixed(base, k) \notin taken
                            /\ \A j \in 1..(k - 1) : Suffixed(base, j) \in taken)

-----------------------------------------------------------------------------
(* get_target_of_pin_recursively and lines_of_single_jump on chains of pins *)

\* how many containers lie around the node whose exit the exports of SpecResolve chain
MaxChain == 3

\* the node (10) in the innermost of n nested containers (21 .. 20 + n) that hold
\* nothing else, and the node (30) behind the outermost: the output pin of the node
\* is connected to the output pin of the innermost container, the output pin of each
\* container to the output pin of the next, the output pin of the outermost (of the
\* node, if n = 0) to the input pin of the node behind; connected says whether that
\* last connection is there
ChainModels(n, connected) ==
    LET pin_in(id) == 10 * id + 1
        pin_out(id) == 10 * id + 2
        onward(k) ==
            IF k < n THEN << Connection(20 + k + 1, pin_out(20 + k + 1), << >>) >>
            ELSE IF connected THEN << Connection(30, pin_in(30), << >>) >>
            ELSE << >>
        node == Node("Hub", 10, IF n = 0 THEN FlowRoot ELSE 21, << "n" >>, << >>, << >>, << >>,
                     << >>, None,
                     << PinWithout(pin_in(10), 10, << >>) >>,
                     << ShapedPin(pin_out(10), 10, << >>, onward(0)) >>)
        container(k) ==
            Node("FlowFragment", 20 + k, IF k = n THEN FlowRoot ELSE 20 + k + 1, << "c" >>,
                 << >>, << >>, << >>, << >>, None,
                 << PinWith(pin_in(20 + k), 20 + k, << >>,
                            << Connection(IF k = 1 THEN 10 ELSE 20 + k - 1,
                                          pin_in(IF k = 1 THEN 10 ELSE 20 + k - 1), << >>) >>) >>,
                 << ShapedPin(pin_out(20 + k), 20 + k, << >>, onward(k)) >>)
        behind == Node("DialogueFragment", 30, FlowRoot, << >>, << "H", "i" >>, << >>, << >>,
                       << >>, None,
                       << PinWithout(pin_in(30), 30, << >>) >>,
                       << PinWithout(pin_out(30), 30, << >>) >>)
    IN << node >> \o [k \in 1..n |-> container(k)] \o << behind >>

\* a model without pins: a comment on the flow
PinlessModel == Model("Comment", 40, FlowRoot, SchemaKeys("Comment"), << >>, << "?" >>, << >>,
                      << >>, << >>, None, None, << >>, << >>, << >>)

Reverse(seq) == [i \in 1..Len(seq) |-> seq[Len(seq) + 1 - i]]

\* the state after read_data of an export that holds such a chain
InitResolve ==
    /\ \E n \in 0..MaxChain, connected \in BOOLEAN, reversed \in BOOLEAN,
          pinless \in { "none", "first", "last" } :
           data = [Models |->
                       (IF pinless = "first" THEN << PinlessModel >> ELSE << >>)
                       \o (IF reversed THEN Reverse(ChainModels(n, connected))
                           ELSE ChainModels(n, connected))
                       \o (IF pinless = "last" THEN << PinlessModel >> ELSE << >>),
                   GlobalVariables |-> << >>]
    /\ models = data.Models
    /\ hierarchy_flow = Children(FlowRoot, data.Models)
    /\ global_variables = << >>
    /\ base_dir = [exists |-> TRUE, items |-> << >>]
    /\ input_pins = PinIds(data.Models, "InputPins")
    /\ output_pins = PinIds(data.Models, "OutputPins")
    /\ hierarchy_path_map = << >>
    /\ entity_id_to_character_name_map = << >>
    /\ renpy_definitions = {}
    /\ log_data = << >>
    /\ files = << >>
    /\ pc = "idle"
    /\ cursor = [run |-> 1, frag |-> 0, child |-> 0]
    /\ error = ""
    /\ issued = << >>
    /\ last = Call("read_data", None, "", << >>)

\* the output pins of the models
OutputPinsOf(ms) ==
    UNION { Range(get_output_pins_of_model(ms[i])) : i \in 1..Len(ms) }

\* what the caller has after get_target_of_pin_recursively returned or raised
TargetResolved(output_pin, r) ==
    /\ last' = Returned("get_target_of_pin_recursively", output_pin.Id, r.err, r.target)
    /\ error' = r.err
    /\ pc' = IF r.err # "" THEN "fatal" ELSE "done"

\* get_target_of_pin_recursively on an output pin of the export
ResolveTargetOfPin ==
    /\ pc = "idle"
    /\ \E output_pin \in OutputPinsOf(models) :
           TargetResolved(output_pin,
                          get_target_of_pin_recursively(output_pin, models, input_pins,
                                                        output_pins))
    /\ UNCHANGED << data, models, hierarchy_flow, global_variables, base_dir, input_pins,
                    output_pins, hierarchy_path_map, entity_id_to_character_name_map,
                    renpy_definitions, log_data, files, cursor, issued >>

\* what the caller has after lines_of_single_jump returned or raised
SingleJumpWritten(output_pin, r) ==
    /\ Adopt(r.self)
    /\ last' = Call("lines_of_single_jump", output_pin.Id, r.err, r.lines)
    /\ error' = r.err
    /\ pc' = IF r.err # "" THEN "fatal" ELSE "done"

\* lines_of_single_jump on an output pin of the export and the model that owns it
SingleJumpOfPin ==
    /\ pc = "idle"
    /\ \E output_pin \in OutputPinsOf(models) :
           SingleJumpWritten(output_pin,
                             lines_of_single_jump(Self, output_pin, output_pin.Owner,
                                                  << << "f" >> >>, 1))
    /\ UNCHANGED << data, models, hierarchy_flow, global_variables, base_dir, input_pins,
                    output_pins, hierarchy_path_map, files, cursor >>

NextResolve ==
    \/ ResolveTargetOfPin
    \/ SingleJumpOfPin

SpecResolve == InitResolve /\ [][NextResolve]_vars

\* the pin with an id among the pins of the models, whatever the order of the models
PinOfExport(pin_id, ms) ==
    LET pins == UNION { Range(get_input_pins_of_model(ms[i]))
                            \cup Range(get_output_pins_of_model(ms[i])) : i \in 1..Len(ms) }
    IN IF \E pin \in pins : pin.Id = pin_id THEN CHOOSE pin \in pins : pin.Id = pin_id
       ELSE NoPin

\* the owner of the input pin at the end of the chain of single connections that
\* begins at an output pin, None if the chain does not end at an input pin within
\* depth connections
RECURSIVE ChainEnd(_, _, _)
ChainEnd(pin, ms, depth) ==
    IF depth = 0 \/ pin = NoPin \/ "Connections" \notin pin.Keys \/ Len(pin.Connections) # 1
    THEN None
    ELSE IF pin.Connections[1].TargetPin \in PinIds(ms, "InputPins")
    THEN PinOfExport(pin.Connections[1].TargetPin, ms).Owner
    ELSE ChainEnd(PinOfExport(pin.Connections[1].TargetPin, ms), ms, depth - 1)

\* C4: for an output pin from which a chain of output pins with one connection each
\* leads to an input pin, get_target_of_pin_recursively returns the owner of that
\* input pin
C4_ChainResolvesToOwnerOfInputPin ==
    /\ last.op = "get_target_of_pin_recursively"
    /\ ChainEnd(PinOfExport(last.arg, models), models, MaxChain + 2) # None
    => /\ last.err = ""
       /\ last.value = ChainEnd(PinOfExport(last.arg, models), models, MaxChain + 2)

\* the exit of a node in three nested containers resolves to the node behind the
\* outermost container when no model without pins comes before the owners of the pins
C4_Witness ==
    /\ last.op = "get_target_of_pin_recursively"
    /\ last.arg = 102
    /\ Len(models) = MaxChain + 2
    /\ last.err = ""
    /\ last.value = 30

\* the same chain in an export whose first model has no pins: the call raises
C4_PinlessModelFirst ==
    /\ last.op = "get_target_of_pin_recursively"
    /\ ChainEnd(PinOfExport(last.arg, models), models, MaxChain + 2) # None
    /\ "InputPins" \notin models[1].Keys
    /\ last.err = "KeyError"

-----------------------------------------------------------------------------
(* write_lines_for_model and lines_of_jump_logic on one node                *)

\* the types of the nodes that end in lines_of_jump_logic
JumpLogicTypes ==
    { "DialogueFragment", "Narration", "RenPyBox", "Hub", "FlowFragment", "Dialogue",
      "Instruction" }

\* the input pins of node 2 in the exports of SpecJump: none, one without a
\* "Connections" key, one with an empty list, one connected to the node inside
NodeInputPins ==
    { << >>,
      << PinWithout(21, 2, << >>) >>,
      << PinWith(21, 2, << >>, << >>) >>,
      << PinWith(21, 2, << >>, << Connection(5, 51, << >>) >>) >>,
      << PinWith(21, 2, << >>, << Connection(5, 51, << >>), Connection(3, 31, << >>) >>) >> }

\* the output pins of node 2 in the exports of SpecJump
NodeOutputPins ==
    { << >>,
      << PinWithout(22, 2, << >>) >>,
      << PinWith(22, 2, << >>, << >>) >>,
      << PinWith(22, 2, << "$", "a" >>, << Connection(3, 31, << >>) >>) >>,
      << PinWith(22, 2, << >>, << Connection(3, 31, << >>), Connection(4, 41, << >>) >>) >>,
      << PinWith(22, 2, << >>, << Connection(3, 31, << >>), Connection(4, 41, << >>) >>),
         PinWithout(23, 2, << >>) >>,
      << PinWith(22, 2, << >>, << Connection(3, 31, << >>) >>),
         PinWith(23, 2, << >>, << Connection(4, 41, << >>) >>) >>,
      << PinWithout(22, 2, << >>),
         PinWith(23, 2, << >>, << Connection(4, 41, << >>) >>) >>,
      << PinWith(22, 2, << >>, << Connection(3, 31, << >>) >>),
         PinWith(23, 2, << >>, << >>) >> }

\* container 1 holds node 2 and the nodes 3 and 4 behind it; node 5 lies in node 2
JumpModels(type, in_pins, out_pins) ==
    << Node("FlowFragment", 1, FlowRoot, << "a" >>, << >>, << >>, << >>, << >>, None,
            << PinWith(11, 1, << >>, << Connection(2, 21, << >>) >>) >>,
            << PinWithout(12, 1, << >>) >>),
       Node(type, 2, 1, << "b" >>, << "h" >>, << >>, << >>, << >>, None, in_pins, out_pins),
       Node("DialogueFragment", 3, 1, << >>, << "x" >>, << >>, << >>, << >>, None,
            << PinWithout(31, 3, << >>) >>, << PinWithout(32, 3, << >>) >>),
       Node("DialogueFragment", 4, 1, << >>, << "y" >>, << >>, << >>, << >>, None,
            << PinWithout(41, 4, << >>) >>, << PinWithout(42, 4, << >>) >>),
       Node("DialogueFragment", 5, 2, << >>, << "z" >>, << >>, << >>, << >>, None,
            << PinWithout(51, 5, << >>) >>, << PinWithout(52, 5, << >>) >>) >>

\* the state after create_flow_hierarchy_dirs of a run on such an export
InitJump ==
    /\ \E type \in JumpLogicTypes, in_pins \in NodeInputPins, out_pins \in NodeOutputPins :
           data = [Models |-> JumpModels(type, in_pins, out_pins), GlobalVariables |-> << >>]
    /\ models = data.Models
    /\ hierarchy_flow = Children(FlowRoot, data.Models)
    /\ global_variables = << >>
    /\ base_dir = [exists |-> TRUE, items |-> << >>]
    /\ input_pins = PinIds(data.Models, "InputPins")
    /\ output_pins = PinIds(data.Models, "OutputPins")
    /\ hierarchy_path_map =
           create_flow_hierarchy_dirs(<< >>, Children(FlowRoot, data.Models), path_base_dir,
                                      data.Models)
    /\ entity_id_to_character_name_map = << >>
    /\ renpy_definitions = {}
    /\ log_data = << >>
    /\ files = << >>
    /\ pc = "idle"
    /\ cursor = [run |-> 1, frag |-> 1, child |-> 1]
    /\ error = ""
    /\ issued = << >>
    /\ last = Call("create_flow_hierarchy_dirs", None, "", << >>)

\* the file that the lines of a model go to: the file of the container it is, or of
\* the container it lies in
FileOf(model) ==
    FragmentFile(hierarchy_path_map, IF IsContainer(model) THEN model.Id ELSE model.Parent)

\* what the caller has after a line builder returned or raised
LinesBuilt(op, model, r) ==
    /\ Adopt(r.self)
    /\ last' = Call(op, model.Id, r.err, r.lines)
    /\ error' = r.err
    /\ pc' = IF r.err # "" THEN "fatal" ELSE "done"

\* write_lines_for_model on a model of the first container
CompileNode ==
    /\ pc = "idle"
    /\ LinesBuilt("write_lines_for_model",
                  get_models_with_parent(hierarchy_path_map[cursor.frag].key,
                                         models)[cursor.child],
                  write_lines_for_model(
                      Self,
                      get_models_with_parent(hierarchy_path_map[cursor.frag].key,
                                             models)[cursor.child],
                      FileOf(get_models_with_parent(hierarchy_path_map[cursor.frag].key,
                                                    models)[cursor.child])))
    /\ UNCHANGED << data, models, hierarchy_flow, global_variables, base_dir, input_pins,
                    output_pins, hierarchy_path_map, files, cursor >>

\* lines_of_jump_logic on the same model
JumpLogicOfNode ==
    /\ pc = "idle"
    /\ LinesBuilt("lines_of_jump_logic",
                  get_models_with_parent(hierarchy_path_map[cursor.frag].key,
                                         models)[cursor.child],
                  lines_of_jump_logic(
                      Self,
                      get_models_with_parent(hierarchy_path_map[cursor.frag].key,
                                             models)[cursor.child],
                      relative_to_base(
                          FileOf(get_models_with_parent(hierarchy_path_map[cursor.frag].key,
                                                        models)[cursor.child]))))
    /\ UNCHANGED << data, models, hierarchy_flow, global_variables, base_dir, input_pins,
                    output_pins, hierarchy_path_map, files, cursor >>

NextJump ==
    \/ CompileNode
    \/ JumpLogicOfNode

SpecJump == InitJump /\ [][NextJump]_vars

\* the model that the last call was about
CompiledNode == get_model_with_id(last.arg, models)

\* the governing pin set as the specification has it: the input pins of a container
\* with an input pin that carries a connection, the output pins otherwise
DuePins(model) ==
    IF /\ model.Type \in { "FlowFragment", "Dialogue" }
       /\ \E i \in 1..Len(get_input_pins_of_model(model)) :
              /\ "Connections" \in get_input_pins_of_model(model)[i].Keys
              /\ get_input_pins_of_model(model)[i].Connections # << >>
    THEN get_input_pins_of_model(model)
    ELSE get_output_pins_of_model(model)

\* the connections on a list of pins, pin by pin
RECURSIVE ConnectionsOn(_)
ConnectionsOn(pins) ==
    IF pins = << >> THEN << >>
    ELSE (IF "Connections" \in Head(pins).Keys THEN Head(pins).Connections ELSE << >>)
         \o ConnectionsOn(Tail(pins))

\* how many of the lines satisfy Test
HowMany(lines, Test(_)) == Cardinality({ i \in 1..Len(lines) : Test(lines[i]) })

\* how many diagnostics the log holds
Diagnostics(ld) ==
    Cardinality(UNION { { << i, j >> : j \in 1..Len(ld[i].value) } : i \in 1..Len(ld) })

JumpTo(label) == Indent(1) \o << "jump " >> \o label \o << "\n" >>

IsJump(line) == Len(line) >= 2 /\ \E i \in 1..Len(line) : line[i] = "jump "

IsMenu(line) == \E i \in 1..Len(line) : line[i] = "menu:\n"

IsOption(line) == \E i \in 1..Len(line) : line[i] \in { "\":\n", "\" if " }

\* C5: compiling a node with a jump-logic role whose governing pin set carries no
\* connection (a node without any pin included) emits exactly one jump, to the end
\* label, and appends exactly one diagnostic
C5_NoConnectionJumpsToEndOnce ==
    /\ last.op = "write_lines_for_model"
    /\ ConnectionsOn(DuePins(CompiledNode)) = << >>
    => /\ last.err = ""
       /\ HowMany(last.lines, IsJump) = 1
       /\ HowMany(last.lines, LAMBDA line : line = JumpTo(end_label)) = 1
       /\ Diagnostics(log_data) = 1

\* a node whose pins are there but unconnected is compiled to one jump to the end
\* label and one diagnostic
C5_Witness ==
    /\ last.op = "write_lines_for_model"
    /\ DuePins(CompiledNode) # << >>
    /\ ConnectionsOn(DuePins(CompiledNode)) = << >>
    /\ last.err = ""
    /\ HowMany(last.lines, LAMBDA line : line = JumpTo(end_label)) = 1
    /\ Diagnostics(log_data) = 1

\* C6: the jump logic of a node is the jump logic of its governing pin set: of the
\* input pins of a FlowFragment or Dialogue with an input pin that carries a
\* connection, of the output pins in every other case (an input pin whose connection
\* list is present but empty included)
C6_GoverningPinSet ==
    last.op = "lines_of_jump_logic"
    => /\ GoverningPins(CompiledNode) = DuePins(CompiledNode)
       /\ last.err = JumpLogicOfPins(Self, CompiledNode, << >>, DuePins(CompiledNode)).err
       /\ last.lines = JumpLogicOfPins(Self, CompiledNode, << >>, DuePins(CompiledNode)).lines

\* a container whose input pin is connected to the node inside jumps to that node
C6_Witness ==
    /\ last.op = "lines_of_jump_logic"
    /\ CompiledNode.Type \in { "FlowFragment", "Dialogue" }
    /\ ConnectionsOn(get_input_pins_of_model(CompiledNode)) # << >>
    /\ ConnectionsOn(get_output_pins_of_model(CompiledNode)) # << >>
    /\ last.lines = << JumpTo(get_label(get_model_with_id(5, models))) >>

\* C7: with one connection on the governing pin set the jump logic is the
\* instructions of the pin that carries it and one jump to the node it leads to, and
\* no menu; with n > 1 connections it is one menu with one option per connection,
\* each with its jump
C7_DispatchOnConnections ==
    LET pins == GoverningPins(CompiledNode)
        n == Len(ConnectionsOn(pins))
    IN last.op = "lines_of_jump_logic"
       => /\ n = 1 =>
               /\ last.err = ""
               /\ HowMany(last.lines, IsMenu) = 0
               /\ last.lines =
                      lines_of_expression(CarryingPin(pins).Text, 1)
                      \o << JumpTo(get_label(get_model_with_id(
                                                 ChainEnd(CarryingPin(pins), models, MaxChain),
                                                 models))) >>
          /\ n > 1 =>
               /\ last.err = ""
               /\ HowMany(last.lines, IsMenu) = 1
               /\ HowMany(last.lines, IsOption) = n
               /\ HowMany(last.lines, IsJump) = n

\* two connections on one pin make a menu of two options
C7_Witness ==
    /\ last.op = "lines_of_jump_logic"
    /\ Len(ConnectionsOn(GoverningPins(CompiledNode))) = 2
    /\ last.err = ""
    /\ HowMany(last.lines, IsMenu) = 1
    /\ HowMany(last.lines, IsOption) = 2

-----------------------------------------------------------------------------
(* lines_of_menu on one pin                                                 *)

\* what a destination of a menu says about its place among the options: no
\* StageDirections key (a Hub has none), an empty field, a field without a number,
\* a number, a number behind another entry
PriorityChoices ==
    { [type |-> "Hub", directions |-> << >>],
      [type |-> "DialogueFragment", directions |-> << >>],
      [type |-> "DialogueFragment", directions |-> << DirOther >>],
      [type |-> "DialogueFragment", directions |-> << DirInt(1) >>],
      [type |-> "DialogueFragment", directions |-> << DirOther, DirInt(5) >>] }

\* the texts of a destination of a menu (a Hub has no MenuText key)
TextChoices ==
    { [type |-> "DialogueFragment", menu_text |-> << "m" >>, text |-> << "t" >>],
      [type |-> "DialogueFragment", menu_text |-> << "m" >>, text |-> << >>],
      [type |-> "DialogueFragment", menu_text |-> << >>, text |-> << "t" >>],
      [type |-> "DialogueFragment", menu_text |-> << >>, text |-> << >>],
      [type |-> "Hub", menu_text |-> << >>, text |-> << "t" >>],
      [type |-> "Hub", menu_text |-> << >>, text |-> << >>] }

\* the orders in which a pin lists two or three of the destinations 3, 4 and 5
ConnectionOrders ==
    { order \in UNION { [1..k -> { 3, 4, 5 }] : k \in 2..3 } :
        \A i, j \in 1..Len(order) : order[i] = order[j] => i = j }

\* a destination of the menu
Destination(id, type, directions, menu_text, text) ==
    Node(type, id, 1, << >>, text, menu_text, directions, << >>, None,
         << PinWithout(10 * id + 1, id, << >>) >>, << PinWithout(10 * id + 2, id, << >>) >>)

\* container 1 holds hub 2, whose output pin lists the connections, and the destinations
MenuModels(connections, destinations) ==
    << Node("FlowFragment", 1, FlowRoot, << "a" >>, << >>, << >>, << >>, << >>, None,
            << PinWith(11, 1, << >>, << Connection(2, 21, << >>) >>) >>,
            << PinWithout(12, 1, << >>) >>),
       Node("Hub", 2, 1, << "b" >>, << >>, << >>, << >>, << >>, None,
            << PinWithout(21, 2, << >>) >>,
            << PinWith(22, 2, << >>, connections) >>) >>
    \o destinations

\* exports whose destinations differ in their priorities
PriorityExports ==
    { MenuModels([i \in 1..Len(order) |-> Connection(order[i], 10 * order[i] + 1, << >>)],
                 [i \in 1..3 |-> Destination(i + 2, p[i].type, p[i].directions, << >>,
                                             << "t" >>)]) :
        order \in ConnectionOrders, p \in [1..3 -> PriorityChoices] }

\* exports whose destinations and connections differ in their texts
TextExports ==
    { MenuModels([i \in 1..2 |-> Connection(order[i], 10 * order[i] + 1, l[order[i] - 2])],
                 [i \in 1..2 |-> Destination(i + 2, c[i].type, << >>, c[i].menu_text,
                                             c[i].text)]) :
        order \in { << 3, 4 >>, << 4, 3 >> }, c \in [1..2 -> TextChoices],
        l \in [1..2 -> { << >>, << "l" >> }] }

\* the state after read_data of an export with such a pin
InitMenu ==
    /\ \E ms \in PriorityExports \cup TextExports :
           data = [Models |-> ms, GlobalVariables |-> << >>]
    /\ models = data.Models
    /\ hierarchy_flow = Children(FlowRoot, data.Models)
    /\ global_variables = << >>
    /\ base_dir = [exists |-> TRUE, items |-> << >>]
    /\ input_pins = PinIds(data.Models, "InputPins")
    /\ output_pins = PinIds(data.Models, "OutputPins")
    /\ hierarchy_path_map = << >>
    /\ entity_id_to_character_name_map = << >>
    /\ renpy_definitions = {}
    /\ log_data = << >>
    /\ files = << >>
    /\ pc = "idle"
    /\ cursor = [run |-> 1, frag |-> 0, child |-> 0]
    /\ error = ""
    /\ issued = << >>
    /\ last = Call("read_data", None, "", << >>)

\* what the caller has after lines_of_menu returned or raised
MenuBuilt(model, r) ==
    /\ last' = Call("lines_of_menu", model.Id, r.err, r.lines)
    /\ error' = r.err
    /\ pc' = IF r.err # "" THEN "fatal" ELSE "done"

\* lines_of_menu on the output pins of a node with more than one connection
MenuOfNode ==
    /\ pc = "idle"
    /\ \E i \in 1..Len(models), display_text_box \in BOOLEAN :
           /\ get_connections_num(get_output_pins_of_model(models[i])) > 1
           /\ MenuBuilt(models[i],
                        lines_of_menu(get_output_pins_of_model(models[i]), display_text_box,
                                      1, models))
    /\ UNCHANGED << data, models, hierarchy_flow, global_variables, base_dir, input_pins,
                    output_pins, hierarchy_path_map, entity_id_to_character_name_map,
                    renpy_definitions, log_data, files, cursor, issued >>

NextMenu == MenuOfNode

SpecMenu == InitMenu /\ [][NextMenu]_vars

\* the connections of the pin of the menu, and the models they lead to
MenuConnections == ConnectionsOn(get_output_pins_of_model(CompiledNode))

MenuDestinations ==
    [i \in 1..Len(MenuConnections) |-> get_model_with_id(MenuConnections[i].Target, models)]

\* the destinations of the options in the order of the emitted lines: each option
\* ends in the jump to the label of its destination
EmittedDestinations ==
    LET jumps == SelectSeq(last.lines, IsJump)
    IN [i \in 1..Len(jumps) |->
            CHOOSE m \in Range(models) \cup { NoModel } :
                \/ jumps[i] = Indent(3) \o << "jump " >> \o get_label(m) \o << "\n" >>
                \/ /\ m = NoModel
                   /\ \A x \in Range(models) :
                          jumps[i] # Indent(3) \o << "jump " >> \o get_label(x) \o << "\n" >>]

\* the menu has one option for each connection of the pin
OptionPerConnection ==
    /\ last.err = ""
    /\ Len(EmittedDestinations) = Len(MenuDestinations)
    /\ Range(EmittedDestinations) = Range(MenuDestinations)

\* whether the stage directions of a model hold a number, and the first they hold
HasPriority(model) ==
    \E i \in 1..Len(model.StageDirections) : model.StageDirections[i].kind = "int"

Priority(model) ==
    model.StageDirections[CHOOSE i \in 1..Len(model.StageDirections) :
                              /\ model.StageDirections[i].kind = "int"
                              /\ \A j \in 1..(i - 1) : model.StageDirections[j].kind # "int"].n

\* C8: when every destination of the pin has a numeric priority, the options are
\* emitted in non-decreasing order of the priorities, however the pin lists them
C8_OptionsByPriority ==
    /\ last.op = "lines_of_menu"
    /\ \A i \in 1..Len(MenuDestinations) : HasPriority(MenuDestinations[i])
    => /\ OptionPerConnection
       /\ \A i, j \in 1..Len(EmittedDestinations) :
              i < j => Priority(EmittedDestinations[i]) <= Priority(EmittedDestinations[j])

\* the pin lists the destination of priority 5 before that of priority 1 and the
\* options come out as 1, 5
C8_Witness ==
    /\ last.op = "lines_of_menu"
    /\ Len(MenuDestinations) = 2
    /\ \A i \in 1..2 : HasPriority(MenuDestinations[i])
    /\ << Priority(MenuDestinations[1]), Priority(MenuDestinations[2]) >> = << 5, 1 >>
    /\ last.err = ""
    /\ << Priority(EmittedDestinations[1]), Priority(EmittedDestinations[2]) >> = << 1, 5 >>

\* C9: when no destination of the pin has a numeric priority (no directives field,
\* an empty one, one without a number), the options are emitted in increasing order
\* of the ids of the destinations, however the pin lists them, and the sort key of
\* each destination is the constant plus its id
C9_OptionsById ==
    /\ last.op = "lines_of_menu"
    /\ \A i \in 1..Len(MenuDestinations) : ~HasPriority(MenuDestinations[i])
    /\ \A i \in 1..Len(MenuDestinations) : get_choice_text(MenuDestinations[i],
                                                           MenuConnections[i]) # << >>
    => /\ OptionPerConnection
       /\ \A i, j \in 1..Len(EmittedDestinations) :
              i < j => EmittedDestinations[i].Id < EmittedDestinations[j].Id
       /\ \A i \in 1..Len(MenuDestinations) :
              get_choice_index(MenuDestinations[i])
                  = index_default_value + MenuDestinations[i].Id

\* destinations without a StageDirections key, listed against their ids, come out in
\* the order of their ids
C9_Witness ==
    /\ last.op = "lines_of_menu"
    /\ Len(MenuDestinations) = 3
    /\ \A i \in 1..3 : "StageDirections" \notin MenuDestinations[i].Keys
    /\ MenuDestinations[1].Id > MenuDestinations[2].Id
    /\ last.err = ""
    /\ \A i, j \in 1..Len(EmittedDestinations) :
           i < j => EmittedDestinations[i].Id < EmittedDestinations[j].Id

\* the text of an option as the specification has it: the menu text of the
\* destination, else the label of the connection, else the text of the destination
DueChoiceText(model, connection) ==
    IF model.MenuText # << >> THEN model.MenuText
    ELSE IF connection.Label # << >> THEN connection.Label
    ELSE model.Text

\* the connection of the pin that leads to a model
ConnectionTo(model) ==
    MenuConnections[CHOOSE i \in 1..Len(MenuConnections) :
                        MenuConnections[i].Target = model.Id]

\* C10: each option of a menu is headed by the menu text of its destination, else by
\* the label of its connection, else by the text of its destination; if all three
\* are empty for a connection, lines_of_menu raises and no line of the menu is there
C10_OptionText ==
    last.op = "lines_of_menu"
    => IF \E i \in 1..Len(MenuConnections) :
              DueChoiceText(MenuDestinations[i], MenuConnections[i]) = << >>
       THEN last.err = "InvalidArticy" /\ last.lines = << >> /\ pc = "fatal"
       ELSE /\ OptionPerConnection
            /\ SelectSeq(last.lines, IsOption)
                   = [i \in 1..Len(EmittedDestinations) |->
                          Indent(2) \o << "\"" >>
                              \o DueChoiceText(EmittedDestinations[i],
                                               ConnectionTo(EmittedDestinations[i]))
                              \o << "\":\n" >>]

\* a menu whose options are headed by a menu text, by a label and by a text
C10_Witness ==
    /\ last.op = "lines_of_menu"
    /\ last.err = ""
    /\ \E i, j \in 1..Len(MenuConnections) :
           /\ MenuDestinations[i].MenuText = << >>
           /\ MenuConnections[i].Label # << >>
           /\ MenuDestinations[i].Text # << >>
           /\ MenuDestinations[j].MenuText = << >>
           /\ MenuConnections[j].Label = << >>
           /\ \E k \in 1..Len(last.lines) :
                  last.lines[k] = Indent(2) \o << "\"" >> \o MenuConnections[i].Label
                                      \o << "\":\n" >>
           /\ \E k \in 1..Len(last.lines) :
                  last.lines[k] = Indent(2) \o << "\"" >> \o MenuDestinations[j].Text
                                      \o << "\":\n" >>

\* a connection without any text: the menu is not emitted
C10_WitnessFatal ==
    /\ last.op = "lines_of_menu"
    /\ last.err = "InvalidArticy"
    /\ last.lines = << >>
    /\ DueChoiceText(MenuDestinations[2], MenuConnections[2]) = << >>
    /\ DueChoiceText(MenuDestinations[1], MenuConnections[1]) # << >>

-----------------------------------------------------------------------------
(* lines_of_menu: the guard and the body of an option                       *)

\* the texts of the input pin of a destination: the condition under which the
\* option is offered
ConditionTexts ==
    { << >>,
      << " " >>,
      << "a" >>,
      << "!", "a" >>,
      << "a", "\n", "&", "&", "b" >> }

\* the texts of the pin that lists the connections: the instructions of each option
InstructionTexts ==
    { << >>,
      << ";" >>,
      << "x" >>,
      << "x", ";", "y" >> }

\* hub 2 lists the destinations 3 and 4 on a pin with instructions; the input pins
\* of the destinations carry conditions
GuardExports ==
    { << Node("FlowFragment", 1, FlowRoot, << "a" >>, << >>, << >>, << >>, << >>, None,
              << PinWith(11, 1, << >>, << Connection(2, 21, << >>) >>) >>,
              << PinWithout(12, 1, << >>) >>),
         Node("Hub", 2, 1, << "b" >>, << >>, << >>, << >>, << >>, None,
              << PinWithout(21, 2, << >>) >>,
              << PinWith(22, 2, instructions,
                         [i \in 1..2 |-> Connection(order[i], 10 * order[i] + 1, << >>)]) >>),
         Node("DialogueFragment", 3, 1, << >>, << "t" >>, << >>, << >>, << >>, None,
              << PinWithout(31, 3, condition[1]) >>, << PinWithout(32, 3, << >>) >>),
         Node("DialogueFragment", 4, 1, << >>, << "u" >>, << >>, << >>, << >>, None,
              << PinWithout(41, 4, condition[2]) >>, << PinWithout(42, 4, << >>) >>) >> :
        order \in { << 3, 4 >>, << 4, 3 >> }, instructions \in InstructionTexts,
        condition \in [1..2 -> ConditionTexts] }

\* the state after read_data of such an export
InitGuard ==
    /\ \E ms \in GuardExports : data = [Models |-> ms, GlobalVariables |-> << >>]
    /\ models = data.Models
    /\ hierarchy_flow = Children(FlowRoot, data.Models)
    /\ global_variables = << >>
    /\ base_dir = [exists |-> TRUE, items |-> << >>]
    /\ input_pins = PinIds(data.Models, "InputPins")
    /\ output_pins = PinIds(data.Models, "OutputPins")
    /\ hierarchy_path_map = << >>
    /\ entity_id_to_character_name_map = << >>
    /\ renpy_definitions = {}
    /\ log_data = << >>
    /\ files = << >>
    /\ pc = "idle"
    /\ cursor = [run |-> 1, frag |-> 0, child |-> 0]
    /\ error = ""
    /\ issued = << >>
    /\ last = Call("read_data", None, "", << >>)

SpecGuard == InitGuard /\ [][NextMenu]_vars

\* the condition of an option as the specification has it: the translation of the
\* text of the pin that the connection enters, its line breaks turned into spaces
DueCondition(model, connection) ==
    convert_condition_from_articy_to_python(
        Replace(Replace(PinOfExport(connection.TargetPin, << model >>).Text,
                        << "\r" >>, << " " >>),
                << "\n" >>, << " " >>))

\* C11: an option is headed '"text" if <condition>:' exactly when the translated
\* text of the pin its connection enters is not empty, the condition being that
\* translation; otherwise it is headed '"text":'
C11_OptionGuard ==
    last.op = "lines_of_menu"
    => /\ OptionPerConnection
       /\ SelectSeq(last.lines, IsOption)
              = [i \in 1..Len(EmittedDestinations) |->
                     Indent(2) \o << "\"" >>
                         \o DueChoiceText(EmittedDestinations[i],
                                          ConnectionTo(EmittedDestinations[i]))
                         \o (IF DueCondition(EmittedDestinations[i],
                                             ConnectionTo(EmittedDestinations[i])) # << >>
                             THEN << "\" if " >>
                                      \o DueCondition(EmittedDestinations[i],
                                                      ConnectionTo(EmittedDestinations[i]))
                                      \o << ":\n" >>
                             ELSE << "\":\n" >>)]

\* one option under the condition "not a", the other without a condition because
\* the text of its pin is a blank
C11_Witness ==
    /\ last.op = "lines_of_menu"
    /\ last.err = ""
    /\ \E k \in 1..Len(last.lines) :
           last.lines[k] = Indent(2) \o << "\"", "t", "\" if ", "n", "o", "t", " ", "a", ":\n" >>
    /\ \E k \in 1..Len(last.lines) :
           last.lines[k] = Indent(2) \o << "\"", "u", "\":\n" >>
    /\ get_model_with_id(4, models).InputPins[1].Text = << " " >>

\* the lines of a menu before its first option
MenuPrologue ==
    SubSeq(last.lines, 1,
           Len(last.lines) - Len(EmittedDestinations)
               * (2 + Len(lines_of_expression(CompiledNode.OutputPins[1].Text, 3))))

\* C12: the lines of each option are its header, then one line for each non-empty
\* translated instruction of the pin that lists the connections, then the jump to
\* the label of the destination, and nothing else
C12_OptionBody ==
    last.op = "lines_of_menu"
    => /\ OptionPerConnection
       /\ HowMany(MenuPrologue, IsOption) = 0
       /\ HowMany(MenuPrologue, IsJump) = 0
       /\ last.lines
              = MenuPrologue
                \o Flatten([i \in 1..Len(EmittedDestinations) |->
                               << SelectSeq(last.lines, IsOption)[i] >>
                               \o [k \in 1..Len(lines_of_expression(
                                                    CompiledNode.OutputPins[1].Text, 3)) |->
                                       Indent(3) \o << "$ " >>
                                           \o SelectSeq(
                                                  Split(CompiledNode.OutputPins[1].Text, ";"),
                                                  LAMBDA x : x # << >>)[k]
                                           \o << "\n" >>]
                               \o << Indent(3) \o << "jump " >>
                                         \o get_label(EmittedDestinations[i])
                                         \o << "\n" >> >>])

\* two options that each run the instructions x and y before their jump
C12_Witness ==
    /\ last.op = "lines_of_menu"
    /\ last.err = ""
    /\ CompiledNode.OutputPins[1].Text = << "x", ";", "y" >>
    /\ Len(EmittedDestinations) = 2
    /\ HowMany(last.lines, LAMBDA line : line = Indent(3) \o << "$ ", "x", "\n" >>) = 2
    /\ HowMany(last.lines, LAMBDA line : line = Indent(3) \o << "$ ", "y", "\n" >>) = 2

-----------------------------------------------------------------------------
(* convert_condition_from_articy_to_python and lines_of_expression on texts *)

\* how long the enumerated expressions of SpecTranslate are
MaxText == 4

\* the characters of the enumerated expressions
ExpressionAlphabet == { "!", "=", "a", " ", ";", "\n" }

\* expressions as authors write them
ExampleExpressions ==
    { << "t", "r", "u", "e", " ", "&", "&", " ", "!", "r", "e", "a", "d", "y" >>,
      << "x", " ", "!", "=", " ", "3" >>,
      << "t", "r", "u", "e" >>,
      << "f", "a", "l", "s", "e" >>,
      << "a", " ", "|", "|", " ", "f", "a", "l", "s", "e" >>,
      << "i", "s", "_", "t", "r", "u", "e" >>,
      << "f", "a", "l", "s", "e", "_", "n", "r" >>,
      << "x", " ", "+", " ", "1", " ", ">", "=", " ", "y" >>,
      << "x", " ", "=", " ", "1", ";", " ", "y", " ", "=", " ", "2" >>,
      << "x", " ", "=", " ", "t", "r", "u", "e", ";", "\r", "\n", "y", " ", "=", " ", "!", "x",
         ";" >> }

ExpressionTexts ==
    UNION { [1..k -> ExpressionAlphabet] : k \in 0..MaxText } \cup ExampleExpressions

\* the state after read_data of an export with an instruction node that holds such
\* an expression
InitTranslate ==
    /\ \E expression \in ExpressionTexts :
           data = [Models |->
                       << Node("Instruction", 2, FlowRoot, << "i" >>, << >>, << >>, << >>,
                               expression, None,
                               << PinWithout(21, 2, << >>) >>,
                               << PinWithout(22, 2, << >>) >>) >>,
                   GlobalVariables |-> << >>]
    /\ models = data.Models
    /\ hierarchy_flow = << >>
    /\ global_variables = << >>
    /\ base_dir = [exists |-> TRUE, items |-> << >>]
    /\ input_pins = PinIds(data.Models, "InputPins")
    /\ output_pins = PinIds(data.Models, "OutputPins")
    /\ hierarchy_path_map = << >>
    /\ entity_id_to_character_name_map = << >>
    /\ renpy_definitions = {}
    /\ log_data = << >>
    /\ files = << >>
    /\ pc = "idle"
    /\ cursor = [run |-> 1, frag |-> 0, child |-> 0]
    /\ error = ""
    /\ issued = << >>
    /\ last = Call("read_data", None, "", << >>)

\* what the caller has after a function without effects returned its lines
LinesReturned(op, model, lines) ==
    /\ last' = Call(op, model.Id, "", lines)
    /\ pc' = "done"
    /\ UNCHANGED << data, models, hierarchy_flow, global_variables, base_dir, input_pins,
                    output_pins, hierarchy_path_map, entity_id_to_character_name_map,
                    renpy_definitions, log_data, files, cursor, error, issued >>

\* convert_condition_from_articy_to_python on the expression of a model
ConvertCondition ==
    /\ pc = "idle"
    /\ \E i \in 1..Len(models) :
           LinesReturned("convert_condition_from_articy_to_python", models[i],
                         << convert_condition_from_articy_to_python(models[i].Expression) >>)

\* lines_of_expression on the expression of a model
ExpressionLines ==
    /\ pc = "idle"
    /\ \E i \in 1..Len(models) :
           LinesReturned("lines_of_expression", models[i],
                         lines_of_expression(models[i].Expression, 1))

NextTranslate ==
    \/ ConvertCondition
    \/ ExpressionLines

SpecTranslate == InitTranslate /\ [][NextTranslate]_vars

\* the expression that the last call translated
TranslatedExpression == CompiledNode.Expression

\* every "!" that is not followed by "=" turned into "not "
RECURSIVE DueNegations(_)
DueNegations(s) ==
    IF s = << >> THEN << >>
    ELSE IF s[1] = "!" /\ ~(Len(s) >= 2 /\ s[2] = "=")
    THEN << "n", "o", "t", " " >> \o DueNegations(Tail(s))
    ELSE << s[1] >> \o DueNegations(Tail(s))

\* every "!" that is followed by a character other than "=" turned into "not "
RECURSIVE FollowedNegations(_)
FollowedNegations(s) ==
    IF s = << >> THEN << >>
    ELSE IF s[1] = "!" /\ Len(s) >= 2 /\ s[2] # "="
    THEN << "n", "o", "t", " " >> \o FollowedNegations(Tail(s))
    ELSE << s[1] >> \o FollowedNegations(Tail(s))

\* C13 as stated: the translation of an expression without literals and connectives
\* is the expression with every "!" that is not followed by "=" turned into "not "
\* (and the blanks at its ends removed); "!=" stays
C13_EveryNegationRewritten ==
    /\ last.op = "convert_condition_from_articy_to_python"
    /\ Range(TranslatedExpression) \subseteq ExpressionAlphabet
    => last.lines = << Strip(DueNegations(TranslatedExpression)) >>

\* C13: the translation of an expression without literals and connectives is the
\* expression with every "!" that is followed by a character other than "=" turned
\* into "not " (and the blanks at its ends removed): "!=" stays, and so does a "!"
\* that ends the text; "true && !ready" becomes "True and not ready" and "x != 3"
\* is returned as it is
C13_NegationRewritten ==
    last.op = "convert_condition_from_articy_to_python"
    => /\ Range(TranslatedExpression) \subseteq ExpressionAlphabet
              => last.lines = << Strip(FollowedNegations(TranslatedExpression)) >>
       /\ TranslatedExpression
              = << "t", "r", "u", "e", " ", "&", "&", " ", "!", "r", "e", "a", "d", "y" >>
              => last.lines = << << "T", "r", "u", "e", " ", "a", "n", "d", " ", "n", "o", "t",
                                    " ", "r", "e", "a", "d", "y" >> >>
       /\ TranslatedExpression = << "x", " ", "!", "=", " ", "3" >>
              => last.lines = << TranslatedExpression >>

\* an inequality next to a negation: "!a!=" becomes "not a!="
C13_Witness ==
    /\ last.op = "convert_condition_from_articy_to_python"
    /\ TranslatedExpression = << "!", "a", "!", "=" >>
    /\ last.lines = << << "n", "o", "t", " ", "a", "!", "=" >> >>

\* the characters of identifiers and numbers
WordChars ==
    { "a", "b", "c", "d", "e", "f", "g", "h", "i", "j", "k", "l", "m", "n", "o", "p", "q",
      "r", "s", "t", "u", "v", "w", "x", "y", "z", "_", "0", "1", "2", "3", "4", "5", "6",
      "7", "8", "9" }

\* how many characters of an identifier or a number a text begins with
RECURSIVE WordLen(_)
WordLen(s) == IF s # << >> /\ s[1] \in WordChars THEN 1 + WordLen(Tail(s)) ELSE 0

\* the translation token by token: the words true and false become True and False,
\* "&&" becomes "and", "||" becomes "or", a "!" before a character other than "="
\* becomes "not ", and every other token stays
RECURSIVE DueTranslation(_)
DueTranslation(s) ==
    IF s = << >> THEN << >>
    ELSE IF s[1] \in WordChars
    THEN (CASE SubSeq(s, 1, WordLen(s)) = << "t", "r", "u", "e" >> -> << "T", "r", "u", "e" >>
            [] SubSeq(s, 1, WordLen(s)) = << "f", "a", "l", "s", "e" >>
                   -> << "F", "a", "l", "s", "e" >>
            [] OTHER -> SubSeq(s, 1, WordLen(s)))
         \o DueTranslation(SubSeq(s, WordLen(s) + 1, Len(s)))
    ELSE IF StartsWith(s, << "&", "&" >>)
    THEN << "a", "n", "d" >> \o DueTranslation(SubSeq(s, 3, Len(s)))
    ELSE IF StartsWith(s, << "|", "|" >>)
    THEN << "o", "r" >> \o DueTranslation(SubSeq(s, 3, Len(s)))
    ELSE IF s[1] = "!" /\ Len(s) >= 2 /\ s[2] # "="
    THEN << "n", "o", "t", " " >> \o DueTranslation(Tail(s))
    ELSE << s[1] >> \o DueTranslation(Tail(s))

\* C14: the translation changes the tokens true, false, "&&", "||" and the unary "!"
\* and nothing else: an identifier that holds true or false as a part, a comparison,
\* an arithmetic term come out as they went in
C14_OnlyLogicTokensChange ==
    last.op = "convert_condition_from_articy_to_python"
    => last.lines = << Strip(DueTranslation(TranslatedExpression)) >>

\* a comparison between arithmetic terms comes out as it went in
C14_Witness ==
    /\ last.op = "convert_condition_from_articy_to_python"
    /\ TranslatedExpression = << "x", " ", "+", " ", "1", " ", ">", "=", " ", "y" >>
    /\ last.lines = << TranslatedExpression >>

\* the statements of a batch as the specification has them: the line breaks are
\* removed, the batch is split at ";", the empty segments are dropped, and each
\* segment that is left is translated on its own
DueStatements(batch) ==
    [k \in 1..Len(SelectSeq(Split(Replace(Replace(batch, << "\n" >>, << >>),
                                          << "\r" >>, << >>),
                                  ";"),
                            LAMBDA segment : segment # << >>)) |->
        Indent(1) \o << "$ " >>
            \o convert_condition_from_articy_to_python(
                   SelectSeq(Split(Replace(Replace(batch, << "\n" >>, << >>),
                                           << "\r" >>, << >>),
                                   ";"),
                             LAMBDA segment : segment # << >>)[k])
            \o << "\n" >>]

\* C15: lines_of_expression emits one statement for each non-empty segment of the
\* batch, in order: the translation of that segment taken on its own
C15_StatementsTranslatedSegmentwise ==
    last.op = "lines_of_expression"
    => last.lines = DueStatements(TranslatedExpression)

\* a batch of two statements on two lines, closed by a separator, gives two lines
C15_Witness ==
    /\ last.op = "lines_of_expression"
    /\ TranslatedExpression
           = << "x", " ", "=", " ", "t", "r", "u", "e", ";", "\r", "\n", "y", " ", "=", " ",
                "!", "x", ";" >>
    /\ last.lines
           = << Indent(1) \o << "$ ", "x", " ", "=", " ", "T", "r", "u", "e", "\n" >>,
                Indent(1) \o << "$ ", "y", " ", "=", " ", "n", "o", "t", " ", "x", "\n" >> >>

-----------------------------------------------------------------------------
(* The label of a node                                                      *)

\* the identifier of a node as the specification has it: the value of the first
\* label="..." entry of its stage directions, the prefix and the id if there is none
DueLabel(model) ==
    IF \E i \in 1..Len(model.StageDirections) :
           model.StageDirections[i].kind = "str" /\ model.StageDirections[i].name = "label"
    THEN model.StageDirections[
             CHOOSE i \in 1..Len(model.StageDirections) :
                 /\ model.StageDirections[i].kind = "str"
                 /\ model.StageDirections[i].name = "label"
                 /\ \A j \in 1..(i - 1) : ~(/\ model.StageDirections[j].kind = "str"
                                            /\ model.StageDirections[j].name = "label")].s
    ELSE << "label_" >> \o IdStr(model.Id)

\* the label that a jump line names
JumpLabel(line) ==
    SubSeq(line, 1 + (CHOOSE i \in 1..Len(line) : line[i] = "jump "), Len(line) - 1)

\* C16: a step that writes lines of a node writes as the first of them the
\* declaration of the node's label (the value of its label directive, else the prefix
\* and its id), and it is this step that enters the label into the symbol table;
\* every jump among the lines names the end label or the label of a node, and the
\* jump of a jump node names the label of its target
C16_LabelFirstAndRegistered ==
    [][/\ pc = "write_flow_fragment_files"
       /\ last'.lines # << >>
       => /\ last'.op = "write_lines_for_model"
          /\ last'.arg = CurrentModel.Id
          /\ last'.lines[1] = << "label " >> \o DueLabel(CurrentModel) \o << ":\n" >>
          /\ DueLabel(CurrentModel) \notin renpy_definitions
          /\ DueLabel(CurrentModel) \in renpy_definitions'
          /\ HowMany(last'.lines, LAMBDA line : line[1] = "label ") = 1
          /\ \A k \in 1..Len(last'.lines) :
                 IsJump(last'.lines[k])
                 => \/ JumpLabel(last'.lines[k]) = end_label
                    \/ \E i \in 1..Len(models) :
                           JumpLabel(last'.lines[k]) = DueLabel(models[i])
          /\ CurrentModel.Type = "Jump"
                 => last'.lines[Len(last'.lines) - 1]
                        = JumpTo(DueLabel(get_model_with_id(CurrentModel.Target, models)))]_vars

\* a node with a label directive has been written under that label, and the node
\* before it has jumped to that label
C16_Witness ==
    /\ pc = "write_flow_fragment_files"
    /\ last.op = "write_lines_for_model"
    /\ last.arg = 3
    /\ last.lines # << >>
    /\ last.lines[1] = << "label ", "intro", ":\n" >>
    /\ << "intro" >> \in renpy_definitions
    /\ \E path \in Keys(files) : \E k \in 1..Len(Get(files, path)) :
           Get(files, path)[k] = JumpTo(<< "intro" >>)

-----------------------------------------------------------------------------
(* write_lines_for_model on a condition node                                *)

\* the shapes of an outcome pin of the condition node 2 in the exports of
\* SpecCondition: its instructions and its connections
OutcomePins(id) ==
    { ShapedPin(id, 2, text, connections) :
        text \in { << >>, << "x" >> },
        connections \in { << >>,
                          << Connection(3, 31, << >>) >>,
                          << Connection(4, 41, << >>) >>,
                          << Connection(3, 31, << >>), Connection(4, 41, << >>) >> } }
    \cup { PinWith(id, 2, << >>, << >>) }

\* container 1 holds the condition node 2 and the nodes 3 and 4 behind it
ConditionModels(expression, true_pin, false_pin) ==
    << Node("FlowFragment", 1, FlowRoot, << "a" >>, << >>, << >>, << >>, << >>, None,
            << PinWith(11, 1, << >>, << Connection(2, 21, << >>) >>) >>,
            << PinWithout(12, 1, << >>) >>),
       Node("Condition", 2, 1, << "b" >>, << >>, << >>, << >>, expression, None,
            << PinWithout(21, 2, << >>) >>, << true_pin, false_pin >>),
       Node("DialogueFragment", 3, 1, << >>, << "x" >>, << >>, << >>, << >>, None,
            << PinWithout(31, 3, << >>) >>, << PinWithout(32, 3, << >>) >>),
       Node("DialogueFragment", 4, 1, << >>, << "y" >>, << >>, << >>, << >>, None,
            << PinWithout(41, 4, << >>) >>, << PinWithout(42, 4, << >>) >>) >>

\* the state after create_flow_hierarchy_dirs of a run on such an export
InitCondition ==
    /\ \E expression \in { << "a" >>, << "!", "a" >>, << "a", "\n", "&", "&", "b" >> },
          true_pin \in OutcomePins(22), false_pin \in OutcomePins(23) :
           data = [Models |-> ConditionModels(expression, true_pin, false_pin),
                   GlobalVariables |-> << >>]
    /\ models = data.Models
    /\ hierarchy_flow = Children(FlowRoot, data.Models)
    /\ global_variables = << >>
    /\ base_dir = [exists |-> TRUE, items |-> << >>]
    /\ input_pins = PinIds(data.Models, "InputPins")
    /\ output_pins = PinIds(data.Models, "OutputPins")
    /\ hierarchy_path_map =
           create_flow_hierarchy_dirs(<< >>, Children(FlowRoot, data.Models), path_base_dir,
                                      data.Models)
    /\ entity_id_to_character_name_map = << >>
    /\ renpy_definitions = {}
    /\ log_data = << >>
    /\ files = << >>
    /\ pc = "idle"
    /\ cursor = [run |-> 1, frag |-> 1, child |-> 1]
    /\ error = ""
    /\ issued = << >>
    /\ last = Call("create_flow_hierarchy_dirs", None, "", << >>)

NextCondition == CompileNode

SpecCondition == InitCondition /\ [][NextCondition]_vars

\* where a line stands among the lines of the last call, 0 if it is not there
LineIndex(line) ==
    IF \E k \in 1..Len(last.lines) : last.lines[k] = line
    THEN CHOOSE k \in 1..Len(last.lines) :
             last.lines[k] = line /\ \A j \in 1..(k - 1) : last.lines[j] # line
    ELSE 0

\* the lines under the "if" and the lines under the "else" of a condition node
IfLine ==
    INDENT \o << "if " >>
        \o convert_condition_from_articy_to_python(
               Replace(Replace(CompiledNode.Expression, << "\r" >>, << " " >>),
                       << "\n" >>, << " " >>))
        \o << ":\n" >>

TrueBlock == SubSeq(last.lines, LineIndex(IfLine) + 1, LineIndex(INDENT \o << "else:\n" >>) - 1)

FalseBlock ==
    SubSeq(last.lines, LineIndex(INDENT \o << "else:\n" >>) + 1, Len(last.lines) - 1)

\* the lines of an outcome are those that its pin asks for: a jump to the end label
\* for a pin without connection, a jump to the node behind its one connection, a menu
\* with an option for each of its connections
OutcomeOf(block, pin) ==
    LET n == Len(ConnectionsOn(<< pin >>))
    IN /\ n = 0 => block = << Indent(2) \o << "jump " >> \o end_label \o << "\n" >> >>
       /\ n = 1 =>
              /\ HowMany(block, IsMenu) = 0
              /\ HowMany(block, IsJump) = 1
              /\ block[Len(block)]
                     = Indent(2) \o << "jump " >>
                           \o DueLabel(get_model_with_id(pin.Connections[1].Target, models))
                           \o << "\n" >>
       /\ n > 1 =>
              /\ block[1] = Indent(2) \o << "menu:\n" >>
              /\ HowMany(block, IsMenu) = 1
              /\ HowMany(block, IsOption) = n
              /\ HowMany(block, IsJump) = n
              /\ \A i \in 1..n :
                     \E k \in 1..Len(block) :
                         block[k] = Indent(4) \o << "jump " >>
                                        \o DueLabel(get_model_with_id(pin.Connections[i].Target,
                                                                      models))
                                        \o << "\n" >>

\* C17: a condition node is compiled to its label, one "if <translated expression>:"
\* line, the lines of the outcome of its first pin, one "else:" line and the lines of
\* the outcome of its second pin; each outcome depends on its own pin only, and each
\* outcome without connection leaves one diagnostic
C17_ConditionOutcomes ==
    /\ last.op = "write_lines_for_model"
    /\ CompiledNode.Type = "Condition"
    => /\ last.err = ""
       /\ HowMany(last.lines, LAMBDA line : line = IfLine) = 1
       /\ HowMany(last.lines, LAMBDA line : line = INDENT \o << "else:\n" >>) = 1
       /\ last.lines[1][1] = "label "
       /\ LineIndex(IfLine) > 1
       /\ LineIndex(IfLine) < LineIndex(INDENT \o << "else:\n" >>)
       /\ last.lines[Len(last.lines)] = << "\n" >>
       /\ OutcomeOf(TrueBlock, CompiledNode.OutputPins[1])
       /\ OutcomeOf(FalseBlock, CompiledNode.OutputPins[2])
       /\ Diagnostics(log_data)
              = Cardinality({ i \in 1..2 : ConnectionsOn(<< CompiledNode.OutputPins[i] >>)
                                               = << >> })

\* a menu under the "if" and a jump to the end label under the "else"
C17_Witness ==
    /\ last.op = "write_lines_for_model"
    /\ CompiledNode.Type = "Condition"
    /\ last.err = ""
    /\ Len(ConnectionsOn(<< CompiledNode.OutputPins[1] >>)) = 2
    /\ ConnectionsOn(<< CompiledNode.OutputPins[2] >>) = << >>
    /\ HowMany(TrueBlock, IsOption) = 2
    /\ FalseBlock = << Indent(2) \o << "jump " >> \o end_label \o << "\n" >> >>
    /\ Diagnostics(log_data) = 1

-----------------------------------------------------------------------------
(* write_lines_for_model on a node without a role                          *)

\* an export with nodes without a role and nodes without a connection: the container 1
\* leads to node 3, and the nodes 3, 5, 2 and 4 are its children in that order
RecoverExport(type2, type4, connections3, connections5) ==
    [Models |->
         << Node("FlowFragment", 1, FlowRoot, << "a" >>, << >>, << >>, << >>, << >>, None,
                 << PinWith(11, 1, << >>, << Connection(3, 31, << >>) >>) >>,
                 << PinWithout(12, 1, << >>) >>),
            Node("DialogueFragment", 3, 1, << >>, << "x" >>, << >>, << >>, << >>, None,
                 << PinWithout(31, 3, << >>) >>, << PinWith(32, 3, << >>, connections3) >>),
            Node("DialogueFragment", 5, 1, << >>, << "y" >>, << >>, << >>, << >>, None,
                 << PinWithout(51, 5, << >>) >>, << ShapedPin(52, 5, << >>, connections5) >>),
            Node(type2, 2, 1, << "n", "2" >>, << "z" >>, << >>, << >>, << >>, None,
                 << PinWithout(21, 2, << >>) >>, << PinWithout(22, 2, << >>) >>),
            Node(type4, 4, 1, << "n", "4" >>, << "z" >>, << >>, << >>, << >>, None,
                 << PinWithout(41, 4, << >>) >>, << PinWith(42, 4, << >>, << >>) >>) >>,
     GlobalVariables |-> << >>]

\* a converter that has been constructed on such an export
InitRecover ==
    /\ Constructed
    /\ \E type2 \in { "Location", "Comment", "Zone", "Hub", "DialogueFragment" },
          type4 \in { "Location", "Comment", "Zone", "Hub", "DialogueFragment" },
          connections3 \in { << >>, << Connection(5, 51, << >>) >> },
          connections5 \in { << >>, << Connection(3, 31, << >>) >> } :
          data = RecoverExport(type2, type4, connections3, connections5)
    /\ base_dir = [exists |-> FALSE, items |-> << >>]

SpecRecover == InitRecover /\ [][Next]_vars

\* the type tags that write_lines_for_model has a builder for
RoleTypes ==
    renpy_box_types \cup
        UNION { node_type_inheritance(class) :
                  class \in { "DialogueFragment", "Dialogue", "FlowFragment", "Jump", "Hub",
                              "Condition", "Instruction" } }

\* the type tags that write_lines_for_model passes over in silence
IgnoredTypes == { "Comment" }

\* the diagnostics that the log holds for the file that is being written
FileDiagnostics(ld) ==
    IF relative_to_base(CurrentFile) \in Keys(ld) THEN Get(ld, relative_to_base(CurrentFile))
    ELSE << >>

\* C18: a node of a type without a role that is not ignored yields no line, registers
\* no label and appends exactly one diagnostic, which names the type tag; a node of an
\* ignored type yields no line and no diagnostic
C18_NoRoleNoLines ==
    [][/\ pc = "write_flow_fragment_files"
       /\ CurrentModel.Type \notin RoleTypes
       => /\ last'.op = "write_lines_for_model"
          /\ last'.arg = CurrentModel.Id
          /\ last'.err = ""
          /\ last'.lines = << >>
          /\ cursor.child > 0 => files' = files
          /\ renpy_definitions' = renpy_definitions
          /\ issued' = issued
          /\ IF CurrentModel.Type \in IgnoredTypes
             THEN log_data' = log_data
             ELSE /\ Diagnostics(log_data') = Diagnostics(log_data) + 1
                  /\ FileDiagnostics(log_data')
                         = Append(FileDiagnostics(log_data),
                                  << "Type \"", CurrentModel.Type, "\" of model " >>
                                      \o IdStr(CurrentModel.Id) \o << " is not supported" >>)]_vars

\* a node of type Location has been passed over with its diagnostic
C18_Witness ==
    /\ last.op = "write_lines_for_model"
    /\ get_model_with_id(last.arg, models).Type = "Location"
    /\ last.lines = << >>
    /\ error = ""
    /\ \E i \in 1..Len(log_data) :
           \E j \in 1..Len(log_data[i].value) :
               \E k \in 1..Len(log_data[i].value[j]) : log_data[i].value[j][k] = "Location"
    /\ label_prefix \o IdStr(last.arg) \notin renpy_definitions
    /\ Diagnostics(log_data) > 1

\* a node of type Comment has been passed over in silence
C18_WitnessIgnored ==
    /\ last.op = "write_lines_for_model"
    /\ get_model_with_id(last.arg, models).Type = "Comment"
    /\ last.lines = << >>
    /\ error = ""
    /\ log_data = << >>

-----------------------------------------------------------------------------
(* The diagnostics log over a run, clean_up turn by turn                   *)

\* the contents of path_base_dir that pass the check of clean_up for unexpected
\* content: generated files and the directory of the container, each of which may
\* resist its deletion
RECURSIVE Listings(_)
Listings(names) ==
    IF names = << >> THEN { << >> }
    ELSE LET rest == Listings(Tail(names))
         IN rest \cup { << Item(Head(names), Head(names) = << "a" >>, locked) >> \o r :
                          locked \in BOOLEAN, r \in rest }

\* a run on an export with diagnostics of its own, at the removal loop of clean_up;
\* cursor.child counts the items that the loop has gone past
InitLog ==
    /\ \E type2 \in { "Location", "Hub" } :
           data = RecoverExport(type2, "Comment", << >>, << >>)
    /\ models = data.Models
    /\ hierarchy_flow = Children(FlowRoot, data.Models)
    /\ global_variables = data.GlobalVariables
    /\ base_dir \in { [exists |-> TRUE, items |-> items] :
                        items \in Listings(<< file_prefix \o << "a.rpy" >>,
                                              file_prefix \o << "b.rpy" >>, << "a" >> >>) }
    /\ input_pins = PinIds(data.Models, "InputPins")
    /\ output_pins = PinIds(data.Models, "OutputPins")
    /\ hierarchy_path_map = << >>
    /\ entity_id_to_character_name_map = << >>
    /\ renpy_definitions = {}
    /\ log_data = << >>
    /\ files = << >>
    /\ pc = "remove_contents"
    /\ cursor = [run |-> 1, frag |-> 0, child |-> 0]
    /\ error = ""
    /\ issued = << >>
    /\ last = Call("read_data", None, "", << >>)

\* one turn of the removal loop of clean_up: the item is deleted, or the failure is
\* recorded under path_base_dir
RemoveItem ==
    /\ pc = "remove_contents"
    /\ cursor.child < Len(base_dir.items)
    /\ IF base_dir.items[cursor.child + 1].locked
       THEN /\ log_data' = Put(log_data, path_base_dir,
                               << << "Failed to delete " >>
                                      \o base_dir.items[cursor.child + 1].name >>)
            /\ cursor' = [cursor EXCEPT !.child = @ + 1]
            /\ UNCHANGED base_dir
       ELSE /\ base_dir' = [base_dir EXCEPT !.items =
                               SubSeq(@, 1, cursor.child)
                                   \o SubSeq(@, cursor.child + 2, Len(@))]
            /\ UNCHANGED << log_data, cursor >>
    /\ last' = Call("clean_up", None, "", << >>)
    /\ UNCHANGED << data, models, hierarchy_flow, global_variables, input_pins, output_pins,
                    hierarchy_path_map, entity_id_to_character_name_map, renpy_definitions,
                    files, pc, error, issued >>

\* the removal loop has gone past every item and clean_up returns
CleanUpReturns ==
    /\ pc = "remove_contents"
    /\ cursor.child = Len(base_dir.items)
    /\ pc' = "create_flow_hierarchy"
    /\ cursor' = [cursor EXCEPT !.child = 0]
    /\ files' = << >>
    /\ last' = Call("clean_up", None, "", << >>)
    /\ UNCHANGED << data, models, hierarchy_flow, global_variables, base_dir, input_pins,
                    output_pins, hierarchy_path_map, entity_id_to_character_name_map,
                    renpy_definitions, log_data, error, issued >>

NextLog ==
    \/ RemoveItem
    \/ CleanUpReturns
    \/ CreateFlowHierarchy
    \/ WriteBaseFile
    \/ WriteCharactersFile
    \/ WriteFileForVariables
    \/ WriteFlowFragment
    \/ WriteChildModel
    \/ WriteLogFile

SpecLog == InitLog /\ [][NextLog]_vars

\* C19: the diagnostics log is append-only over a run: a message that is recorded
\* under a location stays in the list of that location at its position in every later
\* state, also across clean_up when several deletions fail
C19_LogAppendOnly ==
    [][\A i \in 1..Len(log_data) :
           /\ log_data[i].key \in Keys(log_data')
           /\ Len(Get(log_data', log_data[i].key)) >= Len(log_data[i].value)
           /\ SubSeq(Get(log_data', log_data[i].key), 1, Len(log_data[i].value))
                  = log_data[i].value]_vars

\* clean_up has returned after two or more deletions failed, and under path_base_dir
\* the log holds the failure of the last of them only
C19_Witness ==
    /\ pc = "create_flow_hierarchy"
    /\ Len(base_dir.items) >= 2
    /\ \A i \in 1..Len(base_dir.items) : base_dir.items[i].locked
    /\ Get(log_data, path_base_dir)
           = << << "Failed to delete " >> \o base_dir.items[Len(base_dir.items)].name >>

-----------------------------------------------------------------------------
(* Recoverable conditions                                                  *)

\* the ids of the nodes in the order in which run() hands them to
\* write_lines_for_model: container by container, the container and then its children
RECURSIVE HierarchyOrder(_)
HierarchyOrder(k) ==
    IF k > Len(hierarchy_path_map) THEN << >>
    ELSE << hierarchy_path_map[k].key >>
         \o [i \in 1..Len(get_models_with_parent(hierarchy_path_map[k].key, models)) |->
                get_models_with_parent(hierarchy_path_map[k].key, models)[i].Id]
         \o HierarchyOrder(k + 1)

\* where in that order a cursor stands
Position(c) == Len(HierarchyOrder(1)) - Len(HierarchyOrder(c.frag)) + c.child + 1

\* a node of an unsupported type, or a node with jump logic whose governing pins carry
\* no connection
Recoverable(model) ==
    \/ model.Type \notin RoleTypes \cup IgnoredTypes
    \/ /\ model.Type \in JumpLogicTypes
       /\ ConnectionsOn(DuePins(model)) = << >>

\* C20: recoverable conditions never stop the run: the step that processes a node of
\* unsupported type, or a node without connection on its governing pins (its label
\* being free), raises nothing, makes the log grow and hands the run on to the next
\* node in hierarchy order, or to the log file after the last node
C20_RecoverableNeverStops ==
    [][/\ pc = "write_flow_fragment_files"
       /\ Recoverable(CurrentModel)
       /\ ~Collision
       => /\ last'.op = "write_lines_for_model"
          /\ last'.arg = CurrentModel.Id
          /\ HierarchyOrder(1)[Position(cursor)] = CurrentModel.Id
          /\ last'.err = ""
          /\ error' = ""
          /\ pc' # "fatal"
          /\ Diagnostics(log_data') > Diagnostics(log_data)
          /\ IF Position(cursor) < Len(HierarchyOrder(1))
             THEN /\ pc' = "write_flow_fragment_files"
                  /\ Position(cursor') = Position(cursor) + 1
             ELSE pc' = "write_log_file"]_vars

\* a run has gone through a node without connection and a node of unsupported type,
\* with nodes behind them, and has ended with their diagnostics in the log file
C20_Witness ==
    /\ pc = "done"
    /\ error = ""
    /\ get_model_with_id(3, models).OutputPins[1].Connections = << >>
    /\ get_model_with_id(2, models).Type = "Zone"
    /\ get_model_with_id(4, models).Type = "DialogueFragment"
    /\ Diagnostics(log_data) = 3
    /\ Len(Get(files, log_file)) > 3
    /\ << "label_", "0x", "4" >> \in renpy_definitions

-----------------------------------------------------------------------------
(* Target resolution on chains that leave the graph or come back to a pin  *)

\* the models with the connections of one output pin replaced
WithOnward(ms, pin_id, connections) ==
    [i \in 1..Len(ms) |->
        [ms[i] EXCEPT !.OutputPins =
            [j \in 1..Len(ms[i].OutputPins) |->
                IF ms[i].OutputPins[j].Id = pin_id
                THEN PinWith(pin_id, ms[i].OutputPins[j].Owner, ms[i].OutputPins[j].Text,
                             connections)
                ELSE ms[i].OutputPins[j]]]]

\* the chain of ChainModels with its last output pin connected to the input pin of the
\* node behind, to nothing, to a pin id that no model has, back to the output pin of
\* the innermost node, or to itself
EndedChain(n, ending) ==
    LET last_owner == IF n = 0 THEN 10 ELSE 20 + n
    IN CASE ending = "input" -> ChainModels(n, TRUE)
         [] ending = "none" -> ChainModels(n, FALSE)
         [] ending = "unknown" ->
                WithOnward(ChainModels(n, FALSE), 10 * last_owner + 2,
                           << Connection(99, 991, << >>) >>)
         [] ending = "cycle" ->
                WithOnward(ChainModels(n, FALSE), 10 * last_owner + 2,
                           << Connection(10, 102, << >>) >>)
         [] ending = "loop" ->
                WithOnward(ChainModels(n, FALSE), 10 * last_owner + 2,
                           << Connection(last_owner, 10 * last_owner + 2, << >>) >>)

\* the state after read_data of an export that holds such a chain
InitChain ==
    /\ \E n \in 0..MaxChain, ending \in { "input", "none", "unknown", "cycle", "loop" },
          reversed \in BOOLEAN, pinless \in { "none", "first", "last" } :
           data = [Models |->
                       (IF pinless = "first" THEN << PinlessModel >> ELSE << >>)
                       \o (IF reversed THEN Reverse(EndedChain(n, ending))
                           ELSE EndedChain(n, ending))
                       \o (IF pinless = "last" THEN << PinlessModel >> ELSE << >>),
                   GlobalVariables |-> << >>]
    /\ models = data.Models
    /\ hierarchy_flow = Children(FlowRoot, data.Models)
    /\ global_variables = << >>
    /\ base_dir = [exists |-> TRUE, items |-> << >>]
    /\ input_pins = PinIds(data.Models, "InputPins")
    /\ output_pins = PinIds(data.Models, "OutputPins")
    /\ hierarchy_path_map = << >>
    /\ entity_id_to_character_name_map = << >>
    /\ renpy_definitions = {}
    /\ log_data = << >>
    /\ files = << >>
    /\ pc = "idle"
    /\ cursor = [run |-> 1, frag |-> 0, child |-> 0]
    /\ error = ""
    /\ issued = << >>
    /\ last = Call("read_data", None, "", << >>)

SpecChain == InitChain /\ [][NextResolve]_vars

\* where the chain of first connections that begins at an output pin leads: to the
\* "end" of the flow (a pin without connection list), to an "empty" connection list, to
\* an "input" pin, to an "unknown" pin id, or back to a pin of the chain (a "cycle")
RECURSIVE ChainFate(_, _, _)
ChainFate(pin, ms, seen) ==
    IF "Connections" \notin pin.Keys THEN "end"
    ELSE IF pin.Connections = << >> THEN "empty"
    ELSE IF pin.Connections[1].TargetPin \in PinIds(ms, "InputPins") THEN "input"
    ELSE IF pin.Connections[1].TargetPin \notin PinIds(ms, "OutputPins") THEN "unknown"
    ELSE IF pin.Connections[1].TargetPin \in seen \cup { pin.Id } THEN "cycle"
    ELSE ChainFate(PinOfExport(pin.Connections[1].TargetPin, ms), ms, seen \cup { pin.Id })

\* how many connections lie between an output pin and the end of its chain
RECURSIVE ChainDepth(_, _, _)
ChainDepth(pin, ms, seen) ==
    IF ChainFate(pin, ms, seen) \in { "end", "empty" } THEN 0
    ELSE IF pin.Connections[1].TargetPin \notin PinIds(ms, "OutputPins") THEN 1
    ELSE IF pin.Connections[1].TargetPin \in seen \cup { pin.Id } THEN 1
    ELSE 1 + ChainDepth(PinOfExport(pin.Connections[1].TargetPin, ms), ms,
                        seen \cup { pin.Id })

\* the output pin that the last call was given
ResolvedPin == PinOfExport(last.arg, models)

\* C21: when the chain that target resolution follows from an output pin leads, at
\* whatever depth, to a pin id that is neither a known input pin nor a known output
\* pin, the call raises, the run is aborted and no jump is emitted
C21_UnknownPinIsFatal ==
    /\ last.op \in { "get_target_of_pin_recursively", "lines_of_single_jump" }
    /\ ChainFate(ResolvedPin, models, {}) = "unknown"
    => /\ last.err # ""
       /\ error = last.err
       /\ pc = "fatal"
       /\ last.lines = << >>
       /\ last.value = None
       /\ files = << >>
       /\ "InputPins" \in models[1].Keys => last.err = "ValueError"

\* the exit of a node in three nested containers leads to an unknown pin id, and
\* lines_of_single_jump on it has raised ValueError
C21_Witness ==
    /\ last.op = "lines_of_single_jump"
    /\ last.arg = 102
    /\ ChainFate(ResolvedPin, models, {}) = "unknown"
    /\ ChainDepth(ResolvedPin, models, {}) = MaxChain + 1
    /\ last.err = "ValueError"
    /\ pc = "fatal"
    /\ last.lines = << >>

-----------------------------------------------------------------------------
(* create_flow_hierarchy_dirs on containers with equal or empty names      *)

\* the display names of the second container in the exports of SpecDirs
ContainerNames ==
    { << "b" >>, << "c", "h", " ", "a" >>, << "C", "h", "_", "A" >>, << "C", "h", " ", "A" >>,
      << >> }

\* the container "Ch A" (1) with the node 2, and a second container (5) with the node
\* 6, beside the first or in it
DirsExport(name5, parent5) ==
    [Models |->
         << Node("FlowFragment", 1, FlowRoot, << "C", "h", " ", "A" >>, << >>, << >>, << >>,
                 << >>, None,
                 << PinWith(11, 1, << >>, << Connection(2, 21, << >>) >>) >>,
                 << PinWithout(12, 1, << >>) >>),
            Node("DialogueFragment", 2, 1, << >>, << "x" >>, << >>, << >>, << >>, None,
                 << PinWithout(21, 2, << >>) >>, << PinWithout(22, 2, << >>) >>),
            Node("FlowFragment", 5, parent5, name5, << >>, << >>, << >>, << >>, None,
                 << PinWith(51, 5, << >>, << Connection(6, 61, << >>) >>) >>,
                 << PinWithout(52, 5, << >>) >>),
            Node("DialogueFragment", 6, 5, << >>, << "y" >>, << >>, << >>, << >>, None,
                 << PinWithout(61, 6, << >>) >>, << PinWithout(62, 6, << >>) >>) >>,
     GlobalVariables |-> << >>]

\* a converter that has been constructed on such an export
InitDirs ==
    /\ Constructed
    /\ \E name5 \in ContainerNames, parent5 \in { FlowRoot, 1 } :
           data = DirsExport(name5, parent5)
    /\ base_dir \in { [exists |-> FALSE, items |-> << >>],
                      [exists |-> TRUE, items |-> << >>],
                      [exists |-> TRUE,
                       items |-> << Item(file_prefix \o << "old.rpy" >>, FALSE, FALSE) >>] }

SpecDirs == InitDirs /\ [][Next]_vars

\* C23: two different containers of the hierarchy never share an output directory
C23_DirsInjective ==
    \A i, j \in 1..Len(hierarchy_path_map) :
        i # j => hierarchy_path_map[i].value # hierarchy_path_map[j].value

\* a run on two containers whose names differ in case only has ended without error:
\* both are mapped to one directory, and the label of the first container, which is in
\* the symbol table, is declared in no file
C23_Witness ==
    /\ pc = "done"
    /\ error = ""
    /\ Len(hierarchy_path_map) = 2
    /\ hierarchy_path_map[1].value = hierarchy_path_map[2].value
    /\ get_model_with_id(1, models).DisplayName # get_model_with_id(5, models).DisplayName
    /\ label_prefix \o IdStr(1) \in renpy_definitions
    /\ \A path \in Keys(files) :
           \A k \in 1..Len(Get(files, path)) :
               Get(files, path)[k] # << "label " >> \o label_prefix \o IdStr(1) \o << ":\n" >>

\* a container with an empty name in another container shares the directory and the
\* file of that container, and the run ends with the duplicate of its own label
C23_WitnessEmptyName ==
    /\ Len(hierarchy_path_map) = 2
    /\ hierarchy_path_map[1].value = hierarchy_path_map[2].value
    /\ get_model_with_id(5, models).DisplayName = << >>
    /\ get_model_with_id(5, models).Parent = 1
    /\ pc = "fatal"
    /\ error = "ValueError"

-----------------------------------------------------------------------------
(* run() twice on one Converter                                            *)

\* what a run has left when it has returned or raised
Outcome ==
    [pc |-> pc, error |-> error, files |-> files, renpy_definitions |-> renpy_definitions,
     log_data |-> log_data,
     entity_id_to_character_name_map |-> entity_id_to_character_name_map,
     hierarchy_path_map |-> hierarchy_path_map]

\* a read_data that keeps the symbol table of the run before
ReadDataAgainKeepingDefinitions ==
    /\ pc \in { "done", "fatal" }
    /\ cursor.run = 1
    /\ models' = data.Models
    /\ input_pins' = PinIds(data.Models, "InputPins")
    /\ output_pins' = PinIds(data.Models, "OutputPins")
    /\ hierarchy_flow' = Children(FlowRoot, data.Models)
    /\ hierarchy_path_map' = << >>
    /\ global_variables' = data.GlobalVariables
    /\ entity_id_to_character_name_map' = << >>
    /\ log_data' = << >>
    /\ issued' = << >>
    /\ cursor' = [run |-> 2, frag |-> 0, child |-> 0, first |-> Outcome]
    /\ pc' = "clean_up"
    /\ error' = ""
    /\ last' = Call("read_data", None, "", << >>)
    /\ UNCHANGED << data, base_dir, files, renpy_definitions >>

\* run() is called again on the Converter after its first run has returned or raised,
\* on the same export: read_data; the caller keeps the outcome of the first run in
\* cursor.first
ReadDataAgain ==
    /\ pc \in { "done", "fatal" }
    /\ cursor.run = 1
    /\ models' = data.Models
    /\ input_pins' = PinIds(data.Models, "InputPins")
    /\ output_pins' = PinIds(data.Models, "OutputPins")
    /\ hierarchy_flow' = Children(FlowRoot, data.Models)
    /\ hierarchy_path_map' = << >>
    /\ global_variables' = data.GlobalVariables
    /\ entity_id_to_character_name_map' = << >>
    /\ renpy_definitions' = {}
    /\ log_data' = << >>
    /\ issued' = << >>
    /\ cursor' = [run |-> 2, frag |-> 0, child |-> 0, first |-> Outcome]
    /\ pc' = "clean_up"
    /\ error' = ""
    /\ last' = Call("read_data", None, "", << >>)
    /\ UNCHANGED << data, base_dir, files >>

\* read_data of the first run
ReadDataFirst == cursor.run = 0 /\ ReadData

NextTwice ==
    \/ ReadDataFirst
    \/ ReadDataAgain
    \/ CleanUp
    \/ CreateFlowHierarchy
    \/ WriteBaseFile
    \/ WriteCharactersFile
    \/ WriteFileForVariables
    \/ WriteFlowFragment
    \/ WriteChildModel
    \/ WriteLogFile

SpecTwice == Init /\ [][NextTwice]_vars

\* what the runs have generated in path_base_dir passes the check of clean_up for
\* unexpected content: files with the prefix, directories of top-level elements
GeneratedIsExpected ==
    /\ \A path \in Keys(files) :
           ParentDir(path) = path_base_dir => StartsWith(path[Len(path)], file_prefix)
    /\ \A i \in 1..Len(hierarchy_path_map) :
           ParentDir(hierarchy_path_map[i].value) = path_base_dir
               => \E j \in 1..Len(hierarchy_flow) :
                      dir_name(get_model_with_id(hierarchy_flow[j], models))
                          = hierarchy_path_map[i].value[Len(hierarchy_path_map[i].value)]

C24_WitnessFatal ==
    /\ cursor.run = 2
    /\ pc = "fatal"
    /\ error = "ValueError"
    /\ cursor.first.error = "ValueError"

-----------------------------------------------------------------------------
(* The targets of the jumps of a run                                       *)

\* the connections of the output pin of node 2 in the exports of SpecTargets: to the
\* node 3 in the same container, to the node 7 that lies in no container, to both
TargetConnections ==
    { << >>,
      << Connection(3, 31, << >>) >>,
      << Connection(7, 71, << >>) >>,
      << Connection(3, 31, << >>), Connection(7, 71, << >>) >> }

\* the container 1 with the nodes 2 and 3, the jump node 4 and the node 8, and the node
\* 7 beside the container, directly under the flow
TargetsExport(connections2, target4, type8) ==
    [Models |->
         << Node("FlowFragment", 1, FlowRoot, << "a" >>, << >>, << >>, << >>, << >>, None,
                 << PinWith(11, 1, << >>, << Connection(2, 21, << >>) >>) >>,
                 << PinWithout(12, 1, << >>) >>),
            Node("Hub", 2, 1, << "h" >>, << >>, << >>, << >>, << >>, None,
                 << PinWithout(21, 2, << >>) >>, << ShapedPin(22, 2, << >>, connections2) >>),
            Node("DialogueFragment", 3, 1, << >>, << "x" >>, << >>, << >>, << >>, None,
                 << PinWithout(31, 3, << >>) >>, << PinWithout(32, 3, << >>) >>),
            Node("Jump", 4, 1, << "j" >>, << >>, << >>, << >>, << >>, target4,
                 << PinWithout(41, 4, << >>) >>, << PinWithout(42, 4, << >>) >>),
            Node("DialogueFragment", 7, FlowRoot, << >>, << "y" >>, << >>, << >>, << >>, None,
                 << PinWithout(71, 7, << >>) >>, << PinWithout(72, 7, << >>) >>),
            Node(type8, 8, 1, << "z" >>, << "z" >>, << >>, << >>, << >>, None,
                 << PinWithout(81, 8, << >>) >>, << PinWithout(82, 8, << >>) >>) >>,
     GlobalVariables |-> << >>]

\* a converter that has been constructed on such an export
InitTargets ==
    /\ Constructed
    /\ \E connections2 \in TargetConnections, target4 \in { 3, 7, 8 },
          type8 \in { "DialogueFragment", "Zone", "Comment" } :
           data = TargetsExport(connections2, target4, type8)
    /\ base_dir = [exists |-> FALSE, items |-> << >>]

SpecTargets == InitTargets /\ [][Next]_vars

\* the lines of all files
RECURSIVE AllLines(_)
AllLines(fs) == IF fs = << >> THEN << >> ELSE Head(fs).value \o AllLines(Tail(fs))

\* the label is declared by a line of some file
Declared(label) ==
    \E k \in 1..Len(AllLines(files)) : AllLines(files)[k] = << "label " >> \o label \o << ":\n" >>

\* C25: after a run that has ended without fatal error every jump of the output
\* targets the terminal label or a label that the output declares
C25_JumpsTargetDeclaredLabels ==
    pc = "done" /\ error = ""
    => \A k \in 1..Len(AllLines(files)) :
           IsJump(AllLines(files)[k])
               => \/ JumpLabel(AllLines(files)[k]) = end_label
                  \/ Declared(JumpLabel(AllLines(files)[k]))

\* a run has ended without error, the output jumps to the label of node 7, which lies
\* in no container, and no line declares that label
C25_Witness ==
    /\ pc = "done"
    /\ error = ""
    /\ get_model_with_id(7, models).Parent = FlowRoot
    /\ \E k \in 1..Len(AllLines(files)) :
           /\ IsJump(AllLines(files)[k])
           /\ JumpLabel(AllLines(files)[k]) = label_prefix \o IdStr(7)
    /\ ~Declared(label_prefix \o IdStr(7))
    /\ Declared(label_prefix \o IdStr(3))

\* the same for the jump node 4 with a target of a type without builder
C25_WitnessUnsupported ==
    /\ pc = "done"
    /\ error = ""
    /\ get_model_with_id(4, models).Target = 8
    /\ get_model_with_id(8, models).Type \in { "Zone", "Comment" }
    /\ \E k \in 1..Len(AllLines(files)) :
           AllLines(files)[k] = JumpTo(label_prefix \o IdStr(8))
    /\ ~Declared(label_prefix \o IdStr(8))

-----------------------------------------------------------------------------
(* The indentation of the blocks of a condition node                       *)

\* the line is indented by n levels at least
IndentedBy(line, n) == Len(line) >= n /\ SubSeq(line, 1, n) = Indent(n)

\* C26: every line of the "if" block and of the "else" block of a condition node, the
\* statements from the text of an outcome pin included, is indented one level deeper
\* than the "if" and the "else" line
C26_BlocksIndented ==
    /\ last.op = "write_lines_for_model"
    /\ CompiledNode.Type = "Condition"
    /\ last.err = ""
    => /\ IndentedBy(IfLine, 1) /\ ~IndentedBy(IfLine, 2)
       /\ \A k \in 1..Len(TrueBlock) : IndentedBy(TrueBlock[k], 2)
       /\ \A k \in 1..Len(FalseBlock) : IndentedBy(FalseBlock[k], 2)

\* the first outcome pin has one connection and the instruction x: the "if" block is
\* the statement at the level of the "if" line and the jump one level deeper
C26_Witness ==
    /\ last.op = "write_lines_for_model"
    /\ CompiledNode.Type = "Condition"
    /\ last.err = ""
    /\ CompiledNode.OutputPins[1].Text = << "x" >>
    /\ Len(ConnectionsOn(<< CompiledNode.OutputPins[1] >>)) = 1
    /\ TrueBlock = << Indent(1) \o << "$ ", "x", "\n" >>,
                      Indent(2) \o << "jump " >>
                          \o label_prefix \o IdStr(CompiledNode.OutputPins[1].Connections[1].Target)
                          \o << "\n" >> >>

-----------------------------------------------------------------------------
(* The label declarations of a run                                         *)

IsLabel(line) == Len(line) >= 2 /\ line[1] = "label "

\* C27: the label declarations in the output of a run are pairwise distinct, the start
\* label and the terminal label of the base file included
C27_LabelsDistinct ==
    \A k, l \in 1..Len(AllLines(files)) :
        /\ IsLabel(AllLines(files)[k])
        /\ AllLines(files)[k] = AllLines(files)[l]
        => k = l

\* a run on a node with the directive label="end" has ended without error, and its
\* output declares the label end in the base file and for the node
C27_Witness ==
    /\ pc = "done"
    /\ error = ""
    /\ get_label(get_model_with_id(3, models)) = end_label
    /\ end_label \in renpy_definitions
    /\ HowMany(Get(files, base_file),
               LAMBDA line : line = << "label " >> \o end_label \o << ":\n" >>) = 1
    /\ HowMany(AllLines(files),
               LAMBDA line : line = << "label " >> \o end_label \o << ":\n" >>) = 2

-----------------------------------------------------------------------------
(* Menu options on connections to the exit of a container                  *)

\* the container 1 with the container 5 and the node 4 behind it; in container 5 the
\* hub 6 and the nodes 7 and 8; the exit (52) of container 5 leads to node 4, or
\* nowhere; the connections of the hub are given
ExitModels(text5, onward, connections6) ==
    << Node("FlowFragment", 1, FlowRoot, << "a" >>, << >>, << >>, << >>, << >>, None,
            << PinWith(11, 1, << >>, << Connection(5, 51, << >>) >>) >>,
            << PinWithout(12, 1, << >>) >>),
       Node("FlowFragment", 5, 1, << "b" >>, text5, << >>, << >>, << >>, None,
            << PinWith(51, 5, << >>, << Connection(6, 61, << >>) >>) >>,
            << ShapedPin(52, 5, << >>,
                         IF onward THEN << Connection(4, 41, << >>) >> ELSE << >>) >>),
       Node("DialogueFragment", 4, 1, << >>, << "x" >>, << >>, << >>, << >>, None,
            << PinWithout(41, 4, << >>) >>, << PinWithout(42, 4, << >>) >>),
       Node("Hub", 6, 5, << "h" >>, << >>, << >>, << >>, << >>, None,
            << PinWithout(61, 6, << >>) >>, << PinWith(62, 6, << >>, connections6) >>),
       Node("DialogueFragment", 7, 5, << >>, << "y" >>, << >>, << >>, << >>, None,
            << PinWithout(71, 7, << >>) >>,
            << PinWith(72, 7, << >>, << Connection(5, 52, << >>) >>) >>),
       Node("DialogueFragment", 8, 5, << >>, << "z" >>, << >>, << >>, << >>, None,
            << PinWithout(81, 8, << >>) >>, << PinWithout(82, 8, << >>) >>) >>

\* the connections of the hub: to the exit of its container, to node 7, to node 8
ExitConnections ==
    { << Connection(5, 52, label), Connection(7, 71, << >>) >> : label \in { << >>, << "g" >> } }
    \cup { << Connection(7, 71, << >>), Connection(5, 52, label) >> :
             label \in { << >>, << "g" >> } }
    \cup { << Connection(8, 81, label), Connection(5, 52, << "g" >>), Connection(7, 71, << >>) >> :
             label \in { << >>, << "g" >> } }
    \cup { << Connection(7, 71, label), Connection(8, 81, << >>) >> :
             label \in { << >>, << "g" >> } }

\* the state after read_data of such an export
InitExit ==
    /\ \E text5 \in { << >>, << "i", "n" >> }, onward \in BOOLEAN,
          connections6 \in ExitConnections :
           data = [Models |-> ExitModels(text5, onward, connections6),
                   GlobalVariables |-> << >>]
    /\ models = data.Models
    /\ hierarchy_flow = Children(FlowRoot, data.Models)
    /\ global_variables = << >>
    /\ base_dir = [exists |-> TRUE, items |-> << >>]
    /\ input_pins = PinIds(data.Models, "InputPins")
    /\ output_pins = PinIds(data.Models, "OutputPins")
    /\ hierarchy_path_map = << >>
    /\ entity_id_to_character_name_map = << >>
    /\ renpy_definitions = {}
    /\ log_data = << >>
    /\ files = << >>
    /\ pc = "idle"
    /\ cursor = [run |-> 1, frag |-> 0, child |-> 0]
    /\ error = ""
    /\ issued = << >>
    /\ last = Call("read_data", None, "", << >>)

NextExit ==
    \/ MenuOfNode
    \/ ResolveTargetOfPin
    \/ SingleJumpOfPin

SpecExit == InitExit /\ [][NextExit]_vars

\* what single-target resolution returns for a connection: the result of
\* get_target_of_pin_recursively on a pin that has this connection only
ResolvedConnection(connection) ==
    get_target_of_pin_recursively(PinWith(0, 0, << >>, << connection >>), models, input_pins,
                                  output_pins)

\* C28: a menu is emitted also when the target pin of a connection is an output pin,
\* and each of its options jumps to the node that single-target resolution returns for
\* the connection of the option
C28_OptionFollowsChain ==
    /\ last.op = "lines_of_menu"
    /\ \A i \in 1..Len(MenuConnections) :
           get_choice_text(get_model_with_id(MenuConnections[i].Target, models),
                           MenuConnections[i]) # << >>
    => /\ last.err = ""
       /\ \A i \in 1..Len(MenuConnections) :
              /\ ResolvedConnection(MenuConnections[i]).err = ""
              /\ ResolvedConnection(MenuConnections[i]).target # None
              => \E k \in 1..Len(last.lines) :
                     last.lines[k]
                         = Indent(3) \o << "jump " >>
                               \o get_label(get_model_with_id(
                                                ResolvedConnection(MenuConnections[i]).target,
                                                models))
                               \o << "\n" >>

\* lines_of_menu on the hub with a connection to the exit of its container, which
\* leads on to node 4, has raised TypeError
C28_Witness ==
    /\ last.op = "lines_of_menu"
    /\ last.arg = 6
    /\ \E i \in 1..Len(MenuConnections) :
           /\ MenuConnections[i].TargetPin = 52
           /\ MenuConnections[i].TargetPin \in output_pins
           /\ MenuConnections[i].Label # << >>
           /\ ResolvedConnection(MenuConnections[i]).target = 4
    /\ last.err = "TypeError"
    /\ last.lines = << >>

-----------------------------------------------------------------------------
(* Menus on connections that are spread over several pins                  *)

\* the priorities of the destinations 3, 4, 5 and 6 in the exports of SpecPins
PinPriorities ==
    { << 1, 2, 3, 4 >>, << 5, 6, 1, 2 >>, << 1, 1, 1, 1 >>, << 2, 1, 1, 2 >>, << 3, 4, 3, 4 >> }

\* the connections of the first and of the second output pin of the hub: "absent" is
\* a pin without connection list
FirstPinConnections ==
    { "absent",
      << Connection(3, 31, << >>) >>,
      << Connection(3, 31, << >>), Connection(4, 41, << >>) >>,
      << Connection(4, 41, << >>), Connection(3, 31, << >>) >> }

SecondPinConnections ==
    { "absent",
      << Connection(5, 51, << >>) >>,
      << Connection(6, 61, << >>), Connection(5, 51, << >>) >> }

\* the pin of the hub with such connections
HubPin(id, connections) ==
    IF connections = "absent" THEN PinWithout(id, 2, << >>)
    ELSE PinWith(id, 2, << >>, connections)

\* container 1 with the hub 2, which has two output pins, and the destinations 3 to 6
PinsModels(connections22, connections23, priorities) ==
    << Node("FlowFragment", 1, FlowRoot, << "a" >>, << >>, << >>, << >>, << >>, None,
            << PinWith(11, 1, << >>, << Connection(2, 21, << >>) >>) >>,
            << PinWithout(12, 1, << >>) >>),
       Node("Hub", 2, 1, << "b" >>, << >>, << >>, << >>, << >>, None,
            << PinWithout(21, 2, << >>) >>,
            << HubPin(22, connections22), HubPin(23, connections23) >>) >>
    \o [i \in 1..4 |-> Destination(i + 2, "DialogueFragment", << DirInt(priorities[i]) >>,
                                   << >>, << "t" >>)]

\* the state after read_data of such an export
InitPins ==
    /\ \E connections22 \in FirstPinConnections, connections23 \in SecondPinConnections,
          priorities \in PinPriorities :
           data = [Models |-> PinsModels(connections22, connections23, priorities),
                   GlobalVariables |-> << >>]
    /\ models = data.Models
    /\ hierarchy_flow = Children(FlowRoot, data.Models)
    /\ global_variables = << >>
    /\ base_dir = [exists |-> TRUE, items |-> << >>]
    /\ input_pins = PinIds(data.Models, "InputPins")
    /\ output_pins = PinIds(data.Models, "OutputPins")
    /\ hierarchy_path_map = << >>
    /\ entity_id_to_character_name_map = << >>
    /\ renpy_definitions = {}
    /\ log_data = << >>
    /\ files = << >>
    /\ pc = "idle"
    /\ cursor = [run |-> 1, frag |-> 0, child |-> 0]
    /\ error = ""
    /\ issued = << >>
    /\ last = Call("read_data", None, "", << >>)

SpecPins == InitPins /\ [][NextMenu]_vars

\* C29: a menu on several pins with more than one connection in all is emitted
\* whatever the pins are (a pin without connection list among them), as one menu with
\* one option for each connection, and its options are in non-decreasing order of the
\* priorities over all pins
C29_MenuAcrossPins ==
    /\ last.op = "lines_of_menu"
    /\ Len(get_output_pins_of_model(CompiledNode)) > 1
    => /\ last.err = ""
       /\ HowMany(last.lines, IsMenu) = 1
       /\ OptionPerConnection
       /\ \A i, j \in 1..Len(EmittedDestinations) :
              i < j => Priority(EmittedDestinations[i]) <= Priority(EmittedDestinations[j])

\* the first pin leads to node 3 of priority 5 and the second to node 5 of priority 1:
\* the menu is emitted with the option of node 3 before that of node 5
C29_Witness ==
    /\ last.op = "lines_of_menu"
    /\ last.err = ""
    /\ HowMany(last.lines, IsMenu) = 1
    /\ MenuConnections = << Connection(3, 31, << >>), Connection(5, 51, << >>) >>
    /\ Priority(get_model_with_id(3, models)) = 5
    /\ Priority(get_model_with_id(5, models)) = 1
    /\ EmittedDestinations = << get_model_with_id(3, models), get_model_with_id(5, models) >>

\* the first pin has two connections and the second has no connection list:
\* lines_of_menu has raised KeyError
C29_WitnessKeyError ==
    /\ last.op = "lines_of_menu"
    /\ Len(MenuConnections) = 2
    /\ "Connections" \notin get_output_pins_of_model(CompiledNode)[2].Keys
    /\ last.err = "KeyError"
    /\ last.lines = << >>

-----------------------------------------------------------------------------
(* The loop of convert_condition_from_articy_to_python                     *)

\* the text that the loop begins with: the text after the four replace calls
LogicTokensReplaced(text) ==
    Replace(Replace(Replace(Replace(text,
                                    << "t", "r", "u", "e" >>, << "T", "r", "u", "e" >>),
                            << "f", "a", "l", "s", "e" >>, << "F", "a", "l", "s", "e" >>),
                    << "&", "&" >>, << "a", "n", "d" >>),
            << "|", "|" >>, << "o", "r" >>)

\* the texts that converted_text holds at the loop head, turn by turn, up to the turn
\* in which re.search finds nothing
RECURSIVE LoopTexts(_)
LoopTexts(s) ==
    IF FirstNegation(s) = 0 THEN << s >>
    ELSE << s >> \o LoopTexts(SubSeq(s, 1, FirstNegation(s) - 1) \o << "n", "o", "t", " " >>
                                  \o SubSeq(s, FirstNegation(s) + 1, Len(s)))

\* how many "!" a text holds
Negations(s) == Cardinality({ i \in 1..Len(s) : s[i] = "!" })

\* C30: the negation loop ends on every text: each turn takes away one "!" that is
\* not followed by "=" and brings in none, so that the loop has at most as many turns
\* as the text has "!"; a "!" at the end of the text is left as it is
C30_LoopTerminates ==
    last.op = "convert_condition_from_articy_to_python"
    => /\ \A k \in 1..(Len(LoopTexts(LogicTokensReplaced(TranslatedExpression))) - 1) :
              /\ Negations(LoopTexts(LogicTokensReplaced(TranslatedExpression))[k + 1])
                     = Negations(LoopTexts(LogicTokensReplaced(TranslatedExpression))[k]) - 1
              /\ Len(LoopTexts(LogicTokensReplaced(TranslatedExpression))[k + 1])
                     = Len(LoopTexts(LogicTokensReplaced(TranslatedExpression))[k]) + 3
       /\ Len(LoopTexts(LogicTokensReplaced(TranslatedExpression))) - 1
              <= Negations(TranslatedExpression)
       /\ last.lines
              = << Strip(LoopTexts(LogicTokensReplaced(TranslatedExpression))[
                             Len(LoopTexts(LogicTokensReplaced(TranslatedExpression)))]) >>
       /\ /\ TranslatedExpression # << >>
          /\ TranslatedExpression[Len(TranslatedExpression)] = "!"
          => /\ last.lines[1] # << >>
             /\ last.lines[1][Len(last.lines[1])] = "!"
       /\ Negations(last.lines[1])
              = Negations(TranslatedExpression)
                    - (Len(LoopTexts(LogicTokensReplaced(TranslatedExpression))) - 1)

\* on "!a!!" the loop has taken two turns and has left the "!" at the end
C30_Witness ==
    /\ last.op = "convert_condition_from_articy_to_python"
    /\ TranslatedExpression = << "!", "a", "!", "!" >>
    /\ Len(LoopTexts(LogicTokensReplaced(TranslatedExpression))) = 3
    /\ last.lines = << << "n", "o", "t", " ", "a", "n", "o", "t", " ", "!" >> >>

====
